---- MODULE Spec2Model ----
(***************************************************************************)
(* Model of terminal-cli (parallel variant, src/src/s3/downloader.ts lines *)
(* 415-1022): availability resolution, job expansion (day mode), block     *)
(* merging (check mode) and the worker pool that downloads the jobs.       *)
(*                                                                         *)
(* Strings are sequences of one-character strings, so that                 *)
(* strings.TrimSpace and exact string comparison are computed, not         *)
(* assumed.  Dates are day numbers; AddDate(0, 0, 1) is +1.                *)
(***************************************************************************)
EXTENDS Integers, Sequences, FiniteSets, TLC

(* ------------------------------ bounds -------------------------------- *)

\* Days are numbered 1..MaxDate.
MaxDate == 3

\* At most MaxRules rule files are loaded.
MaxRules == 2

\* --exchanges and --tokens hold at most MaxLen values each.
MaxLen == 2

\* The worker pool is checked for job lists of at most MaxJobs jobs.
MaxJobs == 2

\* --parallel is at most MaxPar.
MaxPar == 2

(* ------------------------------ strings ------------------------------- *)

Sp == " "

X == <<"x">>

Y == <<"y">>

P == <<"p">>

Q == <<"q">>

\* strings.TrimSpace: drop leading, then trailing, white space.
RECURSIVE TrimLeft(_)
TrimLeft(s) ==
    IF s # <<>> /\ Head(s) = Sp THEN TrimLeft(Tail(s)) ELSE s

RECURSIVE TrimRight(_)
TrimRight(s) ==
    IF s # <<>> /\ s[Len(s)] = Sp THEN TrimRight(SubSeq(s, 1, Len(s) - 1)) ELSE s

TrimSpace(s) ==
    TrimRight(TrimLeft(s))

\* contains(slice, item): linear scan with exact string equality.
RECURSIVE contains(_, _)
contains(slice, item) ==
    IF slice = <<>> THEN FALSE
    ELSE IF Head(slice) = item THEN TRUE
    ELSE contains(Tail(slice), item)

(* ------------------------- availability rules ------------------------- *)

Dates == 1..MaxDate

\* A Config (map[string][]string) is a function from exchange names to
\* pair lists.  These are the tables the rule files of the model hold.
EmptyTable == [e \in {} |-> <<>>]

TableA == [e \in {X} |-> <<P>>]

TableB == [e \in {X} |-> <<Q, P>>]

TableC == [e \in {X, Y} |-> IF e = X THEN <<P>> ELSE <<Q>>]

Tables == {EmptyTable, TableA, TableB, TableC}

\* The value of a Config variable: nil, or a table.
NilConfig == [isNil |-> TRUE, table |-> EmptyTable]

SomeConfig(t) ==
    [isNil |-> FALSE, table |-> t]

\* The rule lists loadConfigRules can return: not empty (run exits
\* otherwise), sorted ascending by StartDate, one rule per date.
RuleLists ==
    { r \in UNION { [1..n -> [StartDate : Dates, Config : Tables]] : n \in 1..MaxRules } :
        \A i \in 1..(Len(r) - 1) : r[i].StartDate < r[i + 1].StartDate }

\* getConfigForDate: scan from the last rule down, return the first rule
\* with !date.Before(StartDate).
RECURSIVE getConfigScan(_, _, _)
getConfigScan(rules, date, i) ==
    IF i < 1 THEN NilConfig
    ELSE IF ~(date < rules[i].StartDate) THEN SomeConfig(rules[i].Config)
    ELSE getConfigScan(rules, date, i - 1)

\* Mutant of getConfigForDate: the scan runs from the first rule up.
RECURSIVE getConfigScanUp(_, _, _)
getConfigScanUp(rules, date, i) ==
    IF i > Len(rules) THEN NilConfig
    ELSE IF ~(date < rules[i].StartDate) THEN SomeConfig(rules[i].Config)
    ELSE getConfigScanUp(rules, date, i + 1)

\* Mutant of selectedIndex: the test is date.Before(StartDate).
RECURSIVE selectedIndexBefore(_, _, _)
selectedIndexBefore(rules, date, i) ==
    IF i < 1 THEN 0
    ELSE IF date < rules[i].StartDate THEN i
    ELSE selectedIndexBefore(rules, date, i - 1)

\* The value of i at which the loop of getConfigForDate returns, scanning
\* from i down: the index of the selected rule, 0 for `return nil`.
RECURSIVE selectedIndex(_, _, _)
selectedIndex(rules, date, i) ==
    IF i < 1 THEN 0
    ELSE IF ~(date < rules[i].StartDate) THEN i
    ELSE selectedIndex(rules, date, i - 1)

getConfigForDateFirst(rules, date) ==
    getConfigScanUp(rules, date, 1)

getConfigForDate(rules, date) ==
    getConfigScan(rules, date, Len(rules))

(* --------------------------- job expansion ---------------------------- *)

\* Job{Index, Total, Exchange, Pair, Date}; the progress bar is display only.
NewJob(ex, pair, date) ==
    [Index |-> 0, Total |-> 0, Exchange |-> ex, Pair |-> pair, Date |-> date]

\* Mutant of tokensLoop: the token is compared as typed, not trimmed.
RECURSIVE tokensLoopNoTrim(_, _, _, _)
tokensLoopNoTrim(availablePairs, ex, toks, date) ==
    IF toks = <<>> THEN <<>>
    ELSE LET usrPair == Head(toks)
             rest == tokensLoopNoTrim(availablePairs, ex, Tail(toks), date)
         IN IF contains(availablePairs, usrPair)
            THEN <<NewJob(ex, usrPair, date)>> \o rest
            ELSE rest

\* The loop over tokens of runDayMode, for one exchange of one date.
RECURSIVE tokensLoop(_, _, _, _)
tokensLoop(availablePairs, ex, toks, date) ==
    IF toks = <<>> THEN <<>>
    ELSE LET usrPair == TrimSpace(Head(toks))
             rest == tokensLoop(availablePairs, ex, Tail(toks), date)
         IN IF contains(availablePairs, usrPair)
            THEN <<NewJob(ex, usrPair, date)>> \o rest
            ELSE rest

\* Mutant of exchangesLoop: an exchange that comes again is passed over.
RECURSIVE exchangesLoopOnce(_, _, _, _)
exchangesLoopOnce(table, exs, toks, date) ==
    IF exs = <<>> THEN <<>>
    ELSE LET ex == TrimSpace(Head(exs))
             rest == exchangesLoopOnce(table, Tail(exs), toks, date)
         IN IF ex \in DOMAIN table /\ ~contains(Tail(exs), Head(exs))
            THEN tokensLoop(table[ex], ex, toks, date) \o rest
            ELSE rest

\* The loop over exchanges of runDayMode, for one date.
RECURSIVE exchangesLoop(_, _, _, _)
exchangesLoop(table, exs, toks, date) ==
    IF exs = <<>> THEN <<>>
    ELSE LET ex == TrimSpace(Head(exs))
             rest == exchangesLoop(table, Tail(exs), toks, date)
         IN IF ex \in DOMAIN table
            THEN tokensLoop(table[ex], ex, toks, date) \o rest
            ELSE rest

\* The body of the date loop of runDayMode: the jobs one date adds.
jobsForDate(ac, exs, toks, date) ==
    IF ac.isNil THEN <<>> ELSE exchangesLoop(ac.table, exs, toks, date)

\* The whole date loop of runDayMode, from date d to date e.
RECURSIVE dateLoop(_, _, _, _, _)
dateLoop(rules, d, e, exs, toks) ==
    IF d > e THEN <<>>
    ELSE jobsForDate(getConfigForDate(rules, d), exs, toks, d)
         \o dateLoop(rules, d + 1, e, exs, toks)

\* jobs[i].Index = i + 1 (0-based i), jobs[i].Total = len(jobs).
numberJobs(js) ==
    [i \in 1..Len(js) |-> [js[i] EXCEPT !.Index = i, !.Total = Len(js)]]

(* ------------------------------- paths -------------------------------- *)

\* A time.Time at midnight UTC is the number of its day, day 0 being
\* 0000-01-01 (time.Parse accepts the years 0000 to 9999).

\* time.Parse("2006-01-02", s) for the text of year y, month m, day d: the
\* number of the day, in the proleptic Gregorian calendar.
daysFromCivil(y, m, d) ==
    LET yy == IF m <= 2 THEN y - 1 ELSE y
        era == yy \div 400
        yoe == yy - era * 400
        mp == IF m > 2 THEN m - 3 ELSE m + 9
        doy == ((153 * mp + 2) \div 5) + d - 1
        doe == yoe * 365 + (yoe \div 4) - (yoe \div 100) + doy
    IN era * 146097 + doe + 60

\* date.Date(): year, month and day of the day numbered n, computed in
\* steps: the 400-year era, the day of the era, the year of the era, the
\* day of the year counted from March 1, the month counted from March.
civilMonth(y0, m, d) ==
    [y |-> y0 + (IF m <= 2 THEN 1 ELSE 0), m |-> m, d |-> d]

civilMp(y0, doy, mp) ==
    civilMonth(y0, IF mp < 10 THEN mp + 3 ELSE mp - 9,
               doy - ((153 * mp + 2) \div 5) + 1)

civilDoy(y0, doy) ==
    civilMp(y0, doy, (5 * doy + 2) \div 153)

civilYoe(era, doe, yoe) ==
    civilDoy(yoe + era * 400, doe - (365 * yoe + (yoe \div 4) - (yoe \div 100)))

civilDoe(era, doe) ==
    civilYoe(era, doe,
             (doe - (doe \div 1460) + (doe \div 36524) - (doe \div 146096)) \div 365)

civilEra(era, z) ==
    civilDoe(era, z - era * 146097)

civil(n) ==
    civilEra((n - 60) \div 146097, n - 60)

\* The decimal digit k as text.
Digit(k) ==
    CASE k = 0 -> "0" [] k = 1 -> "1" [] k = 2 -> "2" [] k = 3 -> "3"
      [] k = 4 -> "4" [] k = 5 -> "5" [] k = 6 -> "6" [] k = 7 -> "7"
      [] k = 8 -> "8" [] k = 9 -> "9"

\* %d of n >= 0.
RECURSIVE Digits(_)
Digits(n) ==
    IF n < 10 THEN <<Digit(n)>> ELSE Digits(n \div 10) \o <<Digit(n % 10)>>

RECURSIVE ZeroPad(_, _)
ZeroPad(s, w) ==
    IF Len(s) >= w THEN s ELSE ZeroPad(<<"0">> \o s, w)

\* %04d and %02d of n >= 0: at least w digits, zeros in front.
Pad(n, w) ==
    ZeroPad(Digits(n), w)

\* date.Format("2006-01-02") of the date with year, month, day c.
FormatDate(c) ==
    Pad(c.y, 4) \o <<"-">> \o Pad(c.m, 2) \o <<"-">> \o Pad(c.d, 2)

\* Mutant of Sprintf: the numbers are printed with %d.
SprintfNoPad(exchange, folderPart, c, pair, filePart, dateStr) ==
    exchange \o <<"/", folderPart, "/">> \o Digits(c.y) \o <<"/">>
        \o Digits(c.m) \o <<"/">> \o Digits(c.d) \o <<"/">>
        \o pair \o <<"/">> \o exchange \o <<"_", filePart, "_">>
        \o dateStr \o <<"_">> \o pair \o <<".parquet">>

\* Sprintf("%s/%s/%04d/%02d/%02d/%s/%s_%s_%s_%s.parquet", exchange,
\* folderPart, y, m, d, pair, exchange, filePart, dateStr, pair): the
\* characters of the names and of the numbers one by one, the fixed words
\* (the type, "trades", ".parquet") each in one piece.
Sprintf(exchange, folderPart, c, pair, filePart, dateStr) ==
    exchange \o <<"/", folderPart, "/">> \o Pad(c.y, 4) \o <<"/">>
        \o Pad(c.m, 2) \o <<"/">> \o Pad(c.d, 2) \o <<"/">>
        \o pair \o <<"/">> \o exchange \o <<"_", filePart, "_">>
        \o dateStr \o <<"_">> \o pair \o <<".parquet">>

\* getRelativePath with y, m, d := date.Date() already taken.
relativePathOf(exchange, pair, dType, c) ==
    Sprintf(exchange, IF dType = "trade" THEN "trade" ELSE dType, c, pair,
            IF dType = "trade" THEN "trades" ELSE dType, FormatDate(c))

getRelativePath(exchange, pair, dType, date) ==
    relativePathOf(exchange, pair, dType, civil(date))

\* The path the first variant of fetchDownloadLink builds itself:
\* Sprintf("%s/trade/%04d/%02d/%02d/%s/%s_trades_%s_%s.parquet", ...).
inlineSprintf(exchange, c, pair, dateStr) ==
    exchange \o <<"/", "trade", "/">> \o Pad(c.y, 4) \o <<"/">>
        \o Pad(c.m, 2) \o <<"/">> \o Pad(c.d, 2) \o <<"/">>
        \o pair \o <<"/">> \o exchange \o <<"_", "trades", "_">>
        \o dateStr \o <<"_">> \o pair \o <<".parquet">>

inlineRelPath(exchange, pair, date) ==
    inlineSprintf(exchange, civil(date), pair, FormatDate(civil(date)))

\* filepath.Join("downloads", relPath)
fullPathOf(job, dType) ==
    <<"downloads", "/">> \o getRelativePath(job.Exchange, job.Pair, dType, job.Date)

(* ------------------------- dates and rule files ------------------------ *)

isDigit(c) ==
    \E k \in 0..9 : Digit(k) = c

\* The number a text of digits stands for.
RECURSIVE atoi(_)
atoi(t) ==
    IF t = <<>> THEN 0
    ELSE 10 * atoi(SubSeq(t, 1, Len(t) - 1)) + (CHOOSE k \in 0..9 : Digit(k) = t[Len(t)])

isLeap(y) ==
    y % 4 = 0 /\ (y % 100 # 0 \/ y % 400 = 0)

daysIn(m, y) ==
    IF m = 2 THEN (IF isLeap(y) THEN 29 ELSE 28)
    ELSE IF m \in {4, 6, 9, 11} THEN 30 ELSE 31

\* The date of a text already known to be four digits, sep, two digits,
\* sep, two digits: month and day are checked for their range.
parseFields(y, m, d) ==
    IF m \in 1..12 /\ d \in 1..daysIn(m, y)
    THEN [err |-> FALSE, date |-> daysFromCivil(y, m, d)]
    ELSE [err |-> TRUE, date |-> 0]

\* time.Parse("2006-01-02", t) with sep "-" and time.Parse("2006_01_02", t)
\* with sep "_": the whole text is a year of four digits, a month and a
\* day of two, which exist in the calendar.
timeParse(sep, t) ==
    IF /\ Len(t) = 10
       /\ \A i \in {1, 2, 3, 4, 6, 7, 9, 10} : isDigit(t[i])
       /\ t[5] = sep
       /\ t[8] = sep
    THEN parseFields(atoi(SubSeq(t, 1, 4)), atoi(SubSeq(t, 6, 7)), atoi(SubSeq(t, 9, 10)))
    ELSE [err |-> TRUE, date |-> 0]

\* An entry of the embedded directory metadata/<type>: its name (the
\* suffix ".json" is one piece of the text), whether it is a directory,
\* whether ReadFile gives its content ("unreadable" if not) and Unmarshal
\* accepts it ("json") or not ("invalid"), and the table it holds.
Entry(name, isDir, content, cfg) ==
    [Name |-> name, IsDir |-> isDir, content |-> content, cfg |-> cfg]

HasSuffixJson(name) ==
    name # <<>> /\ name[Len(name)] = ".json"

\* strings.TrimPrefix(strings.TrimSuffix(name, ".json"), "_")
trimName(name) ==
    LET n == SubSeq(name, 1, Len(name) - 1)
    IN IF n # <<>> /\ n[1] = "_" THEN SubSeq(n, 2, Len(n)) ELSE n

\* The date of a file name: layout 2006_01_02 first, then 2006-01-02.
parseName(name) ==
    IF timeParse("_", name).err THEN timeParse("-", name) ELSE timeParse("_", name)

\* sort.Slice(rules, StartDate.Before): insertion of a rule into a list
\* sorted by StartDate, after the rules that are not later.
RECURSIVE insertRule(_, _)
insertRule(r, sorted) ==
    IF sorted = <<>> THEN <<r>>
    ELSE IF r.StartDate < sorted[1].StartDate THEN <<r>> \o sorted
    ELSE <<sorted[1]>> \o insertRule(r, Tail(sorted))

RECURSIVE sortRules(_)
sortRules(rules) ==
    IF rules = <<>> THEN <<>>
    ELSE insertRule(rules[Len(rules)], sortRules(SubSeq(rules, 1, Len(rules) - 1)))

\* Mutant of loadEntries: the content is read before the name is parsed.
RECURSIVE loadEntriesReadFirst(_, _, _)
loadEntriesReadFirst(entries, i, rules) ==
    IF i > Len(entries) THEN [err |-> FALSE, rules |-> rules]
    ELSE IF entries[i].IsDir \/ ~HasSuffixJson(entries[i].Name)
         THEN loadEntriesReadFirst(entries, i + 1, rules)
    ELSE IF entries[i].content # "json" THEN [err |-> TRUE, rules |-> <<>>]
    ELSE IF parseName(trimName(entries[i].Name)).err
         THEN loadEntriesReadFirst(entries, i + 1, rules)
    ELSE loadEntriesReadFirst(entries, i + 1,
             Append(rules, [StartDate |-> parseName(trimName(entries[i].Name)).date,
                            Config |-> entries[i].cfg]))

\* loadConfigRules: the loop over the entries, from entry i on.
RECURSIVE loadEntries(_, _, _)
loadEntries(entries, i, rules) ==
    IF i > Len(entries) THEN [err |-> FALSE, rules |-> rules]
    ELSE IF entries[i].IsDir \/ ~HasSuffixJson(entries[i].Name)
         THEN loadEntries(entries, i + 1, rules)
    ELSE IF parseName(trimName(entries[i].Name)).err
         THEN loadEntries(entries, i + 1, rules)
    ELSE IF entries[i].content # "json" THEN [err |-> TRUE, rules |-> <<>>]
    ELSE loadEntries(entries, i + 1,
             Append(rules, [StartDate |-> parseName(trimName(entries[i].Name)).date,
                            Config |-> entries[i].cfg]))

\* loadConfigRules(dType) on the directory dir = metadata/<dType>, which
\* exists or not: (rules, err).
loadConfigRules(dir) ==
    IF ~dir.exists THEN [err |-> TRUE, rules |-> <<>>]
    ELSE LET l == loadEntries(dir.entries, 1, <<>>)
         IN IF l.err THEN l ELSE [err |-> FALSE, rules |-> sortRules(l.rules)]

\* The name _YYYY_MM_DD.json of the rule file of day n.
ruleFileName(n) ==
    <<"_">> \o Pad(civil(n).y, 4) \o <<"_">> \o Pad(civil(n).m, 2) \o <<"_">>
        \o Pad(civil(n).d, 2) \o <<".json">>

\* A directory from which loadConfigRules returns rules.
RECURSIVE entriesOf(_)
entriesOf(rules) ==
    IF rules = <<>> THEN <<>>
    ELSE <<Entry(ruleFileName(rules[1].StartDate), FALSE, "json", rules[1].Config)>>
             \o entriesOf(Tail(rules))

dirOf(rules) ==
    [exists |-> TRUE, entries |-> entriesOf(rules)]

(* ---------------------------- link service ---------------------------- *)

\* What client.Do gives fetchDownloadLink: status 0 stands for no response
\* at all (a transport error); json tells whether Decode succeeds;
\* message is the Message field after Decode.
Response(status, json, message) ==
    [status |-> status, json |-> json, message |-> message]

RespOK == Response(200, TRUE, "")

RespNotFound == Response(404, TRUE, "")

NoResponse == Response(0, FALSE, "")

\* Every answer: no response, or a status with a body that decodes or
\* not and carries a message or not.
Responses ==
    {NoResponse} \cup
    { Response(st, js, msg) : st \in {200, 404, 500}, js \in BOOLEAN,
                              msg \in {"", "denied"} }

\* err == nil
NoErr == <<>>

\* Mutant of fetchDownloadLink: the status 404 is tested before the message.
fetchDownloadLinkStatusFirst(resp) ==
    IF resp.status = 0
    THEN [url |-> "", size |-> 0, err |-> <<"transport">>]
    ELSE IF resp.status # 200
    THEN IF resp.status = 404
         THEN [url |-> "", size |-> 0, err |-> <<"file not found on server">>]
         ELSE IF resp.message # ""
         THEN [url |-> "", size |-> 0, err |-> <<resp.message>>]
         ELSE [url |-> "", size |-> 0, err |-> <<"api status %d", resp.status>>]
    ELSE IF ~resp.json
    THEN [url |-> "", size |-> 0, err |-> <<"invalid json">>]
    ELSE [url |-> "download_url", size |-> 1, err |-> NoErr]

\* fetchDownloadLink after client.Do: (url, size, err).
fetchDownloadLink(resp) ==
    IF resp.status = 0
    THEN [url |-> "", size |-> 0, err |-> <<"transport">>]
    ELSE IF resp.status # 200
    THEN IF resp.message # ""
         THEN [url |-> "", size |-> 0, err |-> <<resp.message>>]
         ELSE IF resp.status = 404
         THEN [url |-> "", size |-> 0, err |-> <<"file not found on server">>]
         ELSE [url |-> "", size |-> 0, err |-> <<"api status %d", resp.status>>]
    ELSE IF ~resp.json
    THEN [url |-> "", size |-> 0, err |-> <<"invalid json">>]
    ELSE [url |-> "download_url", size |-> 1, err |-> NoErr]

(* --------------------------- response body ---------------------------- *)

\* What one Read of a reader returns: n bytes and err, "nil" for none.
ReadResult(n, err) ==
    [n |-> n, err |-> err]

\* The Reads of resp.Body for each result of the transport: a body of two
\* bytes that ends with (0, EOF) or with its last byte, a connection that
\* breaks after one byte, with the error in a Read of its own or together
\* with the byte.  No body is read after an error of the GET.
bodyReads(stream) ==
    CASE stream = "ok" -> <<ReadResult(2, "nil"), ReadResult(0, "EOF")>>
      [] stream = "ok_chunks" -> <<ReadResult(1, "nil"), ReadResult(1, "EOF")>>
      [] stream = "copy_err" -> <<ReadResult(1, "nil"), ReadResult(0, "reset")>>
      [] stream = "copy_err_data" -> <<ReadResult(1, "reset")>>
      [] OTHER -> <<>>

\* Mutant of ProgressReaderRead: the error of a Read that gave bytes is
\* held back.
ProgressReaderReadHoldsErr(under, barNil) ==
    [n |-> under.n,
     err |-> IF under.n > 0 THEN "nil" ELSE under.err,
     add |-> IF under.n > 0 /\ ~barNil THEN under.n ELSE 0]

\* ProgressReader.Read: (n, err) of pr.Reader.Read, and the number add
\* given to pr.Bar.Add (0 for no call); under is what pr.Reader.Read
\* returns, barNil tells whether pr.Bar is nil.
ProgressReaderRead(under, barNil) ==
    [n |-> under.n,
     err |-> under.err,
     add |-> IF under.n > 0 /\ ~barNil THEN under.n ELSE 0]

\* io.Copy(file, proxyReader) from Read i on: the bytes of every Read are
\* written, EOF ends the copy without error, another error ends it with
\* that error; a reader at its end returns (0, EOF).
RECURSIVE copyLoop(_, _, _, _, _)
copyLoop(reads, i, written, added, barNil) ==
    IF i > Len(reads) THEN [written |-> written, err |-> "nil", added |-> added]
    ELSE LET r == ProgressReaderRead(reads[i], barNil)
         IN IF r.err = "EOF"
            THEN [written |-> written + r.n, err |-> "nil", added |-> added + r.add]
            ELSE IF r.err # "nil"
            THEN [written |-> written + r.n, err |-> r.err, added |-> added + r.add]
            ELSE copyLoop(reads, i + 1, written + r.n, added + r.add, barNil)

ioCopy(reads, barNil) ==
    copyLoop(reads, 1, 0, 0, barNil)

\* jobs[i].Bar is the printer that Start returned: never nil.
barIsNil == FALSE

(* ------------------------------- state -------------------------------- *)

VARIABLES
    mode, dataType, exchanges, tokens, startDate, endDate, skipConfirm, parallelism,
    metadata, start, end, configRules,
    pc, curr, activeConfig, jobs,
    blocks, currentBlock,
    spawned, sent, jobsCh, closed,
    wpc, wjob, wout, wtmp, mu,
    successCount, failCount, skipCount,
    fs, dirs, linkResult, streamResult,
    fs0, fullPath, recvCount, statSeen, fetchCalls, streamCalls, barTitle, barCurrent,
    outcome,
    prevRun,
    fileList, concurrency, tsPc, queue, results, progress, tsWorkers, callbacks, shifted

argVars == <<mode, dataType, exchanges, tokens, startDate, endDate, skipConfirm, parallelism, metadata>>

flagVars == <<argVars, start, end, configRules>>

loopVars == <<curr, activeConfig, jobs>>

checkVars == <<blocks, currentBlock>>

chanVars == <<spawned, sent, jobsCh, closed>>

workerVars == <<wpc, wjob, wout, wtmp, mu>>

countVars == <<successCount, failCount, skipCount>>

envVars == <<fs, dirs, linkResult, streamResult>>

histVars == <<fs0, fullPath, recvCount, statSeen, fetchCalls, streamCalls, barTitle,
              barCurrent, outcome>>

\* The state of a call of downloadFiles of the S3 variant.
tsVars == <<fileList, concurrency, tsPc, queue, results, progress, tsWorkers, callbacks, shifted>>

vars == <<flagVars, pc, loopVars, checkVars, chanVars, workerVars, countVars, envVars, histVars,
         prevRun, tsVars>>

Workers == 1..MaxPar

\* No block is open: currentBlock == nil.
NilBlock == [isNil |-> TRUE, Start |-> 0, End |-> 0, Data |-> EmptyTable]

\* The values of the flags --exchanges and --tokens: lists of strings,
\* as typed (cobra does not trim them).
ListsOf(S) ==
    UNION { [1..n -> S] : n \in 0..MaxLen }

\* Day mode values, with surrounding white space as the user may type it.
UserExchanges == {<<Sp>> \o X, Y}

UserTokens == {P \o <<Sp>>, Q}

\* Check mode filter values.
CheckExchanges == {X}

CheckTokens == {P, Q}

\* The results of downloadStream that return before the file exists.
OpenErrors == {"open_err", "status_err", "mkdir_err", "create_err"}

\* The index of the last separator among the first i characters of a
\* path, 0 if there is none.
RECURSIVE lastSlash(_, _)
lastSlash(p, i) ==
    IF i = 0 THEN 0
    ELSE IF p[i] = "/" THEN i
    ELSE lastSlash(p, i - 1)

\* filepath.Dir(fullPath): the path without its last element.
Dir(p) ==
    LET i == lastSlash(p, Len(p))
    IN IF i = 0 THEN <<".">> ELSE SubSeq(p, 1, i - 1)

\* The directories that hold the files there are.
dirsOf(files) ==
    { Dir(p) : p \in { q \in DOMAIN files : files[q] # "absent" } }

\* The process has not been run before: no earlier run to remember.
NoRun == [ran |-> FALSE, fs0 |-> <<>>, outcome |-> <<>>]

\* The progress object before downloadFiles has made one.
NoProgress ==
    [totalFiles |-> 0, completedFiles |-> 0, failedFiles |-> 0, currentFiles |-> <<>>,
     totalBytes |-> 0, downloadedBytes |-> 0]

\* downloadFiles of the S3 variant is not called.
TsIdle ==
    /\ fileList = <<>>
    /\ concurrency = 10
    /\ tsPc = "none"
    /\ queue = <<>>
    /\ results = <<>>
    /\ progress = NoProgress
    /\ tsWorkers = <<>>
    /\ callbacks = <<>>
    /\ shifted = <<>>

\* What is common to every initial state: nothing has run yet.
InitZero ==
    /\ prevRun = NoRun
    /\ dirs = dirsOf(fs)
    /\ curr = 0
    /\ activeConfig = NilConfig
    /\ jobs = <<>>
    /\ blocks = <<>>
    /\ currentBlock = NilBlock
    /\ spawned = 0
    /\ sent = 0
    /\ jobsCh = <<>>
    /\ closed = FALSE
    /\ wpc = [w \in Workers |-> "none"]
    /\ wjob = [w \in Workers |-> 0]
    /\ wout = [w \in Workers |-> "none"]
    /\ wtmp = [w \in Workers |-> 0]
    /\ mu = 0
    /\ successCount = 0
    /\ failCount = 0
    /\ skipCount = 0
    /\ fs0 = fs
    /\ fullPath = <<>>
    /\ recvCount = <<>>
    /\ statSeen = <<>>
    /\ fetchCalls = <<>>
    /\ streamCalls = <<>>
    /\ barTitle = <<>>
    /\ barCurrent = <<>>
    /\ outcome = <<>>

\* run has parsed its dates start and end and loaded its rules
\* configRules: the flags and the directory they come from.
InitState ==
    /\ TsIdle
    /\ pc = "run"
    /\ startDate = FormatDate(civil(start))
    /\ endDate = FormatDate(civil(end))
    /\ metadata = dirOf(configRules)
    /\ InitZero

\* The same with the default of --type.
InitRest ==
    /\ dataType = "trade"
    /\ InitState

\* No file system and no network: for the runs that stop before the pool.
NoEnv ==
    /\ fs = <<>>
    /\ linkResult = <<>>
    /\ streamResult = <<>>

(* ----------------------------- check mode ----------------------------- *)

\* Byte values of the characters of the model's strings.
CharCode(c) ==
    CASE c = Sp -> 32
      [] c = "p" -> 112
      [] c = "q" -> 113
      [] c = "x" -> 120
      [] c = "y" -> 121

\* Go's string `<`: byte-wise lexicographic order.
RECURSIVE StrLess(_, _)
StrLess(a, b) ==
    IF b = <<>> THEN FALSE
    ELSE IF a = <<>> THEN TRUE
    ELSE IF CharCode(Head(a)) # CharCode(Head(b)) THEN CharCode(Head(a)) < CharCode(Head(b))
    ELSE StrLess(Tail(a), Tail(b))

\* Insert into an ascending list.
RECURSIVE insertSorted(_, _)
insertSorted(s, sorted) ==
    IF sorted = <<>> THEN <<s>>
    ELSE IF StrLess(s, Head(sorted)) THEN <<s>> \o sorted
    ELSE <<Head(sorted)>> \o insertSorted(s, Tail(sorted))

\* sort.Strings: the list in ascending order.
RECURSIVE sortStrings(_)
sortStrings(list) ==
    IF list = <<>> THEN <<>> ELSE insertSorted(Head(list), sortStrings(Tail(list)))

\* runCheckMode, the loop over the pairs of one exchange: validPairs.
RECURSIVE validPairsOf(_, _)
validPairsOf(pairs, toks) ==
    IF pairs = <<>> THEN <<>>
    ELSE IF Len(toks) > 0 /\ ~contains(toks, Head(pairs))
         THEN validPairsOf(Tail(pairs), toks)
         ELSE <<Head(pairs)>> \o validPairsOf(Tail(pairs), toks)

\* Mutant of dayDataOf: an exchange is kept without any valid pair.
dayDataOfKeepEmpty(ac, exs, toks) ==
    IF ac.isNil THEN EmptyTable
    ELSE LET kept == { ex \in DOMAIN ac.table : ~(Len(exs) > 0 /\ ~contains(exs, ex)) }
         IN [ex \in kept |-> sortStrings(validPairsOf(ac.table[ex], toks))]

\* runCheckMode, dayData: the exchanges that pass --exchanges and keep at
\* least one pair, each with its sorted valid pairs.
dayDataOf(ac, exs, toks) ==
    IF ac.isNil THEN EmptyTable
    ELSE LET kept == { ex \in DOMAIN ac.table :
                        /\ ~(Len(exs) > 0 /\ ~contains(exs, ex))
                        /\ Len(validPairsOf(ac.table[ex], toks)) > 0 }
         IN [ex \in kept |-> sortStrings(validPairsOf(ac.table[ex], toks))]

\* Mutant of isDataEqual: the test `len(a) != len(b)` is missing.
isDataEqualNoLen(a, b) ==
    \A k \in DOMAIN a :
        /\ k \in DOMAIN b
        /\ Len(a[k]) = Len(b[k])
        /\ \A i \in 1..Len(a[k]) : a[k][i] = b[k][i]

\* isDataEqual: same number of keys, every key of a in b with an equal list.
isDataEqual(a, b) ==
    IF Cardinality(DOMAIN a) # Cardinality(DOMAIN b) THEN FALSE
    ELSE \A k \in DOMAIN a :
            /\ k \in DOMAIN b
            /\ Len(a[k]) = Len(b[k])
            /\ \A i \in 1..Len(a[k]) : a[k][i] = b[k][i]

NewBlock(date, data) ==
    [isNil |-> FALSE, Start |-> date, End |-> date, Data |-> data]

\* Mutant of mergeDay: End is moved to the date before the data are compared.
mergeDayEndFirst(bs, cb, date, dayData) ==
    LET hasData == DOMAIN dayData # {}
    IN IF cb.isNil
       THEN <<bs, IF hasData THEN NewBlock(date, dayData) ELSE cb>>
       ELSE IF isDataEqual(cb.Data, dayData)
            THEN <<bs, [cb EXCEPT !.End = date]>>
            ELSE <<Append(bs, [cb EXCEPT !.End = date]),
                   IF hasData THEN NewBlock(date, dayData) ELSE NilBlock>>

\* Mutant of mergeDay: a block is opened without the test of hasData.
mergeDayOpensEmpty(bs, cb, date, dayData) ==
    IF cb.isNil
    THEN <<bs, NewBlock(date, dayData)>>
    ELSE IF isDataEqual(cb.Data, dayData)
         THEN <<bs, [cb EXCEPT !.End = date]>>
         ELSE <<Append(bs, cb), NewBlock(date, dayData)>>

\* runCheckMode, the merge step of one date: <<blocks, currentBlock>> after it.
mergeDay(bs, cb, date, dayData) ==
    LET hasData == DOMAIN dayData # {}
    IN IF cb.isNil
       THEN <<bs, IF hasData THEN NewBlock(date, dayData) ELSE cb>>
       ELSE IF isDataEqual(cb.Data, dayData)
            THEN <<bs, [cb EXCEPT !.End = date]>>
            ELSE <<Append(bs, cb), IF hasData THEN NewBlock(date, dayData) ELSE NilBlock>>

\* runCheckMode: one iteration of `for !curr.After(end)`.
CheckDay ==
    /\ pc = "check"
    /\ ~(curr > end)
    /\ activeConfig' = getConfigForDate(configRules, curr)
    /\ LET m == mergeDay(blocks, currentBlock, curr,
                         dayDataOf(activeConfig', exchanges, tokens))
       IN /\ blocks' = m[1]
          /\ currentBlock' = m[2]
    /\ curr' = curr + 1
    /\ UNCHANGED <<flagVars, prevRun, tsVars, pc, jobs, chanVars, workerVars, countVars, envVars,
                   histVars>>

\* runCheckMode after the loop: the open block is appended and the blocks
\* are printed (or "No data found").
CheckDone ==
    /\ pc = "check"
    /\ curr > end
    /\ blocks' = IF currentBlock.isNil THEN blocks ELSE Append(blocks, currentBlock)
    /\ pc' = "reported"
    /\ UNCHANGED <<flagVars, prevRun, tsVars, loopVars, currentBlock, chanVars, workerVars, countVars,
                   envVars, histVars>>

\* The orders in which `for ex, pairs := range activeConfig` may visit
\* the keys of a table: Go fixes none.
Orders(table) ==
    { o \in [1..Cardinality(DOMAIN table) -> DOMAIN table] :
        \A i, j \in 1..Cardinality(DOMAIN table) : o[i] = o[j] => i = j }

\* dayData[ex] = validPairs
put(dayData, ex, validPairs) ==
    [e \in DOMAIN dayData \cup {ex} |-> IF e = ex THEN validPairs ELSE dayData[e]]

\* Mutant of rangeBody: sort.Strings is applied to the pairs of the
\* table, before they are filtered.
rangeBodySortsPairs(ex, st, exs, toks) ==
    IF Len(exs) > 0 /\ ~contains(exs, ex) THEN st
    ELSE LET sorted == sortStrings(st.table[ex])
             validPairs == validPairsOf(sorted, toks)
         IN [dayData |-> IF Len(validPairs) > 0 THEN put(st.dayData, ex, validPairs)
                         ELSE st.dayData,
             table |-> [st.table EXCEPT ![ex] = sorted]]

\* runCheckMode, the body of the range loop for the key ex.  st holds
\* dayData and the table being ranged over, whose lists are those of the
\* loaded rule; validPairs is a list of its own (append to a nil slice)
\* and it is the one that sort.Strings orders.
rangeBody(ex, st, exs, toks) ==
    IF Len(exs) > 0 /\ ~contains(exs, ex) THEN st
    ELSE LET validPairs == sortStrings(validPairsOf(st.table[ex], toks))
         IN [dayData |-> IF Len(validPairs) > 0 THEN put(st.dayData, ex, validPairs)
                         ELSE st.dayData,
             table |-> st.table]

\* The range loop over the keys in the given order.
RECURSIVE rangeLoop(_, _, _, _)
rangeLoop(order, st, exs, toks) ==
    IF order = <<>> THEN st
    ELSE rangeLoop(Tail(order), rangeBody(Head(order), st, exs, toks), exs, toks)

\* dayData and the table after `if activeConfig != nil { for ... }`.
dayDataIn(ac, order, exs, toks) ==
    rangeLoop(order, [dayData |-> EmptyTable, table |-> ac.table], exs, toks)

\* The rules after the loop: the table of the selected rule is the map
\* the loop ranged over.
storeTable(rules, date, table) ==
    LET i == selectedIndex(rules, date, Len(rules))
    IN IF i = 0 THEN rules ELSE [rules EXCEPT ![i].Config = table]

\* runCheckMode: one iteration of `for !curr.After(end)`, the keys of the
\* table visited in one of the orders.
CheckDayOrdered ==
    /\ pc = "check"
    /\ ~(curr > end)
    /\ activeConfig' = getConfigForDate(configRules, curr)
    /\ \E order \in Orders(activeConfig'.table) :
        LET st == dayDataIn(activeConfig', order, exchanges, tokens)
            m == mergeDay(blocks, currentBlock, curr, st.dayData)
        IN /\ blocks' = m[1]
           /\ currentBlock' = m[2]
           /\ configRules' = storeTable(configRules, curr, st.table)
    /\ curr' = curr + 1
    /\ UNCHANGED <<argVars, prevRun, tsVars, start, end, pc, jobs, chanVars, workerVars, countVars,
                   envVars, histVars>>

(* --------------------------- run, day mode ---------------------------- *)

\* Mutant of runParseDates: --end-date is not parsed, end is start.
runParseStartOnly ==
    /\ pc = "args"
    /\ IF startDate = <<>> \/ timeParse("-", startDate).err
       THEN pc' = "exit1" /\ UNCHANGED <<start, end>>
       ELSE /\ pc' = "load"
            /\ start' = timeParse("-", startDate).date
            /\ end' = timeParse("-", startDate).date
    /\ UNCHANGED <<argVars, prevRun, tsVars, configRules, loopVars, checkVars, chanVars, workerVars,
                   countVars, envVars, histVars>>

\* run: --start-date is required; start and end are parsed, end is start
\* without --end-date.
runParseDates ==
    /\ pc = "args"
    /\ IF startDate = <<>> \/ timeParse("-", startDate).err
       THEN pc' = "exit1" /\ UNCHANGED <<start, end>>
       ELSE IF endDate # <<>> /\ timeParse("-", endDate).err
       THEN pc' = "exit1" /\ UNCHANGED <<start, end>>
       ELSE /\ pc' = "load"
            /\ start' = timeParse("-", startDate).date
            /\ end' = IF endDate = <<>> THEN timeParse("-", startDate).date
                      ELSE timeParse("-", endDate).date
    /\ UNCHANGED <<argVars, prevRun, tsVars, configRules, loopVars, checkVars, chanVars, workerVars,
                   countVars, envVars, histVars>>

\* run: the rules are loaded; an error and an empty list end the run.
runLoadRules ==
    /\ pc = "load"
    /\ IF loadConfigRules(metadata).err \/ Len(loadConfigRules(metadata).rules) = 0
       THEN pc' = "exit1" /\ UNCHANGED configRules
       ELSE pc' = "run" /\ configRules' = loadConfigRules(metadata).rules
    /\ UNCHANGED <<argVars, prevRun, tsVars, start, end, loopVars, checkVars, chanVars, workerVars,
                   countVars, envVars, histVars>>

\* Mutant of run: case "check" runs into the day mode.
runCheckIntoDay ==
    /\ pc = "run"
    /\ pc' = CASE mode \in {"check", "day"} ->
                    IF Len(exchanges) = 0 \/ Len(tokens) = 0 THEN "exit1" ELSE "expand"
               [] OTHER -> "exit1"
    /\ curr' = start
    /\ UNCHANGED <<flagVars, prevRun, tsVars, activeConfig, jobs, checkVars, chanVars, workerVars,
                   countVars, envVars, histVars>>

\* run: the switch on mode, after the dates and the rules are loaded.
run ==
    /\ pc = "run"
    /\ pc' = CASE mode = "check" -> "check"
               [] mode = "day" ->
                    IF Len(exchanges) = 0 \/ Len(tokens) = 0 THEN "exit1" ELSE "expand"
               [] OTHER -> "exit1"
    /\ curr' = start
    /\ UNCHANGED <<flagVars, prevRun, tsVars, activeConfig, jobs, checkVars, chanVars, workerVars,
                   countVars, envVars, histVars>>

\* Mutant of ExpandDay: the configuration is resolved for the start date.
ExpandDayStale ==
    /\ pc = "expand"
    /\ ~(curr > end)
    /\ activeConfig' = getConfigForDate(configRules, start)
    /\ jobs' = jobs \o jobsForDate(activeConfig', exchanges, tokens, curr)
    /\ curr' = curr + 1
    /\ UNCHANGED <<flagVars, prevRun, tsVars, pc, checkVars, chanVars, workerVars, countVars,
                   envVars, histVars>>

\* runDayMode: one iteration of `for !curr.After(end)`.
ExpandDay ==
    /\ pc = "expand"
    /\ ~(curr > end)
    /\ activeConfig' = getConfigForDate(configRules, curr)
    /\ jobs' = jobs \o jobsForDate(activeConfig', exchanges, tokens, curr)
    /\ curr' = curr + 1
    /\ UNCHANGED <<flagVars, prevRun, tsVars, pc, checkVars, chanVars, workerVars, countVars,
                   envVars, histVars>>

\* Mutant of ExpandDone: the test `len(jobs) == 0` is missing.
ExpandDoneNoTest ==
    /\ pc = "expand"
    /\ curr > end
    /\ pc' = "confirm"
    /\ jobs' = numberJobs(jobs)
    /\ UNCHANGED <<flagVars, prevRun, tsVars, curr, activeConfig, checkVars, chanVars, workerVars,
                   countVars, envVars, histVars>>

\* Mutant of ExpandDone: runDownloads is called without the prompt and
\* without a look at --yes.
ExpandDoneNoPrompt ==
    /\ pc = "expand"
    /\ curr > end
    /\ IF Len(jobs) = 0
       THEN /\ pc' = "nomatch"
            /\ jobs' = jobs
            /\ UNCHANGED histVars
       ELSE /\ pc' = "pool"
            /\ jobs' = numberJobs(jobs)
            /\ fullPath' = [j \in 1..Len(jobs) |-> fullPathOf(jobs[j], dataType)]
            /\ recvCount' = [j \in 1..Len(jobs) |-> 0]
            /\ statSeen' = [j \in 1..Len(jobs) |-> "none"]
            /\ fetchCalls' = [j \in 1..Len(jobs) |-> 0]
            /\ streamCalls' = [j \in 1..Len(jobs) |-> 0]
            /\ barTitle' = [j \in 1..Len(jobs) |-> <<"Pending">>]
            /\ barCurrent' = [j \in 1..Len(jobs) |-> 0]
            /\ outcome' = [j \in 1..Len(jobs) |-> "none"]
            /\ fs0' = fs0
    /\ UNCHANGED <<flagVars, prevRun, tsVars, curr, activeConfig, checkVars, chanVars, workerVars,
                   countVars, envVars>>

\* runDayMode after the loop: no job, or Index and Total are set and the
\* summary is printed.
ExpandDone ==
    /\ pc = "expand"
    /\ curr > end
    /\ IF Len(jobs) = 0
       THEN pc' = "nomatch" /\ jobs' = jobs
       ELSE pc' = "confirm" /\ jobs' = numberJobs(jobs)
    /\ UNCHANGED <<flagVars, prevRun, tsVars, curr, activeConfig, checkVars, chanVars, workerVars,
                   countVars, envVars, histVars>>

\* The user answers no to "Do you want to continue?": os.Exit(0).
ConfirmNo ==
    /\ pc = "confirm"
    /\ ~skipConfirm
    /\ pc' = "aborted"
    /\ UNCHANGED <<flagVars, prevRun, tsVars, loopVars, checkVars, chanVars, workerVars, countVars,
                   envVars, histVars>>

\* The exit code of the process: 1 after os.Exit(1), 0 after os.Exit(0)
\* or when run returns, -1 while it runs.
ExitCode ==
    CASE pc = "exit1" -> 1
      [] pc \in {"nomatch", "aborted", "done", "reported"} -> 0
      [] OTHER -> -1

\* --yes, or the user answers yes: runDownloads(jobs) starts.  The bars
\* are display only; the channel and the counters are created.
ConfirmYes ==
    /\ pc = "confirm"
    /\ pc' = "pool"
    /\ fullPath' = [j \in 1..Len(jobs) |-> fullPathOf(jobs[j], dataType)]
    /\ recvCount' = [j \in 1..Len(jobs) |-> 0]
    /\ statSeen' = [j \in 1..Len(jobs) |-> "none"]
    /\ fetchCalls' = [j \in 1..Len(jobs) |-> 0]
    /\ streamCalls' = [j \in 1..Len(jobs) |-> 0]
    /\ barTitle' = [j \in 1..Len(jobs) |-> <<"Pending">>]
    /\ barCurrent' = [j \in 1..Len(jobs) |-> 0]
    /\ outcome' = [j \in 1..Len(jobs) |-> "none"]
    /\ UNCHANGED <<flagVars, prevRun, tsVars, loopVars, checkVars, chanVars, workerVars, countVars,
                   envVars, fs0>>

(* ------------------------- runDownloads: main ------------------------- *)

\* Mutant of Spawn: the loop runs while i <= parallelism.
SpawnOneMore ==
    /\ pc = "pool"
    /\ spawned <= parallelism
    /\ spawned < MaxPar
    /\ spawned' = spawned + 1
    /\ wpc' = [wpc EXCEPT ![spawned + 1] = "recv"]
    /\ UNCHANGED <<flagVars, prevRun, tsVars, pc, loopVars, checkVars, sent, jobsCh, closed, wjob,
                   wout, wtmp, mu, countVars, envVars, histVars>>

\* `for i := 0; i < parallelism; i++ { wg.Add(1); go func() {...}() }`
Spawn ==
    /\ pc = "pool"
    /\ spawned < parallelism
    /\ spawned' = spawned + 1
    /\ wpc' = [wpc EXCEPT ![spawned + 1] = "recv"]
    /\ UNCHANGED <<flagVars, prevRun, tsVars, pc, loopVars, checkVars, sent, jobsCh, closed, wjob,
                   wout, wtmp, mu, countVars, envVars, histVars>>

\* Mutant of chanCap: the channel holds one job.
chanCapOne(js) ==
    1

\* `make(chan Job, len(jobs))`: the capacity of jobsCh.
chanCap(js) ==
    Len(js)

\* Mutant of Send: the jobs are sent while the workers are being started.
SendEarly ==
    /\ pc = "pool"
    /\ sent < Len(jobs)
    /\ Len(jobsCh) < chanCap(jobs)
    /\ sent' = sent + 1
    /\ jobsCh' = Append(jobsCh, sent + 1)
    /\ UNCHANGED <<flagVars, prevRun, tsVars, pc, loopVars, checkVars, spawned, closed, workerVars,
                   countVars, envVars, histVars>>

\* `jobsCh <- j`, after the loop that starts the workers: a send waits
\* while the channel is full.
Send ==
    /\ pc = "pool"
    /\ ~(spawned < parallelism)
    /\ sent < Len(jobs)
    /\ Len(jobsCh) < chanCap(jobs)
    /\ sent' = sent + 1
    /\ jobsCh' = Append(jobsCh, sent + 1)
    /\ UNCHANGED <<flagVars, prevRun, tsVars, pc, loopVars, checkVars, spawned, closed, workerVars,
                   countVars, envVars, histVars>>

\* close(jobsCh)
Close ==
    /\ pc = "pool"
    /\ ~(spawned < parallelism)
    /\ sent = Len(jobs)
    /\ ~closed
    /\ closed' = TRUE
    /\ UNCHANGED <<flagVars, prevRun, tsVars, pc, loopVars, checkVars, spawned, sent, jobsCh,
                   workerVars, countVars, envVars, histVars>>

\* wg.Wait() returns when every started worker has called wg.Done; the
\* summary is printed.
Wait ==
    /\ pc = "pool"
    /\ closed
    /\ \A w \in 1..spawned : wpc[w] = "exit"
    /\ pc' = "done"
    /\ UNCHANGED <<flagVars, prevRun, tsVars, loopVars, checkVars, chanVars, workerVars, countVars,
                   envVars, histVars>>

(* ------------------------ runDownloads: workers ----------------------- *)

\* The fullPath of job j, as runDownloads computed it for the label of
\* the job's bar; processJob computes the same text from the same job.
JobPath(j) ==
    fullPath[j]

\* Mutant of Recv: the job is read but stays in the channel.
RecvNoPop(w) ==
    /\ wpc[w] = "recv"
    /\ jobsCh # <<>>
    /\ wjob' = [wjob EXCEPT ![w] = Head(jobsCh)]
    /\ wpc' = [wpc EXCEPT ![w] = "stat"]
    /\ recvCount' = [recvCount EXCEPT ![Head(jobsCh)] = @ + 1]
    /\ UNCHANGED <<flagVars, prevRun, tsVars, pc, loopVars, checkVars, chanVars, wout, wtmp, mu,
                   countVars, envVars, fs0, fullPath, statSeen, fetchCalls, streamCalls,
                   barTitle, barCurrent, outcome>>

\* Mutant of Recv: the newest job of the channel is received.
RecvNewest(w) ==
    /\ wpc[w] = "recv"
    /\ jobsCh # <<>>
    /\ wjob' = [wjob EXCEPT ![w] = jobsCh[Len(jobsCh)]]
    /\ jobsCh' = SubSeq(jobsCh, 1, Len(jobsCh) - 1)
    /\ wpc' = [wpc EXCEPT ![w] = "stat"]
    /\ recvCount' = [recvCount EXCEPT ![jobsCh[Len(jobsCh)]] = @ + 1]
    /\ UNCHANGED <<flagVars, prevRun, tsVars, pc, loopVars, checkVars, spawned, sent, closed, wout,
                   wtmp, mu, countVars, envVars, fs0, fullPath, statSeen, fetchCalls,
                   streamCalls, barTitle, barCurrent, outcome>>

\* `for job := range jobsCh`: receive the oldest job of the channel.
Recv(w) ==
    /\ wpc[w] = "recv"
    /\ jobsCh # <<>>
    /\ wjob' = [wjob EXCEPT ![w] = Head(jobsCh)]
    /\ jobsCh' = Tail(jobsCh)
    /\ wpc' = [wpc EXCEPT ![w] = "stat"]
    /\ recvCount' = [recvCount EXCEPT ![Head(jobsCh)] = @ + 1]
    /\ UNCHANGED <<flagVars, prevRun, tsVars, pc, loopVars, checkVars, spawned, sent, closed, wout,
                   wtmp, mu, countVars, envVars, fs0, fullPath, statSeen, fetchCalls,
                   streamCalls, barTitle, barCurrent, outcome>>

\* The range loop ends on the closed, drained channel: wg.Done().
Exit(w) ==
    /\ wpc[w] = "recv"
    /\ jobsCh = <<>>
    /\ closed
    /\ wpc' = [wpc EXCEPT ![w] = "exit"]
    /\ UNCHANGED <<flagVars, prevRun, tsVars, pc, loopVars, checkVars, chanVars, wjob, wout, wtmp,
                   mu, countVars, envVars, histVars>>

\* Mutant of statExists: the test is `err != nil`.
statMissing(files, path) ==
    files[path] = "absent"

\* `_, err := os.Stat(fullPath); err == nil`
statExists(files, path) ==
    files[path] # "absent"

\* Mutant of Stat: the link is fetched whatever the existence check says.
StatThenFetch(w) ==
    /\ wpc[w] = "stat"
    /\ statSeen' = [statSeen EXCEPT ![wjob[w]] =
                        IF statExists(fs, JobPath(wjob[w])) THEN "exists" ELSE "absent"]
    /\ wpc' = [wpc EXCEPT ![w] = "fetch"]
    /\ barTitle' = [barTitle EXCEPT ![wjob[w]] = <<"Fetching">>]
    /\ UNCHANGED <<flagVars, prevRun, tsVars, pc, loopVars, checkVars, chanVars, wjob, wout, wtmp,
                   mu, countVars, envVars, fs0, fullPath, recvCount, fetchCalls, streamCalls,
                   outcome,
                   barCurrent>>

\* processJob, the existence check: skip, or go on to fetch the link.
Stat(w) ==
    /\ wpc[w] = "stat"
    /\ LET exists == statExists(fs, JobPath(wjob[w]))
       IN /\ statSeen' = [statSeen EXCEPT ![wjob[w]] = IF exists THEN "exists" ELSE "absent"]
          /\ wpc' = [wpc EXCEPT ![w] = IF exists THEN "lock" ELSE "fetch"]
          /\ wout' = [wout EXCEPT ![w] = IF exists THEN "skip" ELSE "none"]
          /\ barTitle' = [barTitle EXCEPT ![wjob[w]] =
                            IF exists THEN <<"Skipped (Exists)">> ELSE <<"Fetching">>]
          /\ barCurrent' = [barCurrent EXCEPT ![wjob[w]] = IF exists THEN @ + 1 ELSE @]
    /\ UNCHANGED <<flagVars, prevRun, tsVars, pc, loopVars, checkVars, chanVars, wjob, wtmp, mu,
                   countVars, envVars, fs0, fullPath, recvCount, fetchCalls, streamCalls,
                   outcome>>

\* Mutant of Fetch: an error of fetchDownloadLink ends the worker.
FetchErrExits(w) ==
    /\ wpc[w] = "fetch"
    /\ fetchCalls' = [fetchCalls EXCEPT ![wjob[w]] = @ + 1]
    /\ LET res == fetchDownloadLink(linkResult[JobPath(wjob[w])])
       IN /\ wpc' = [wpc EXCEPT ![w] = IF res.err = NoErr THEN "get" ELSE "exit"]
          /\ barTitle' = [barTitle EXCEPT ![wjob[w]] =
                            IF res.err = NoErr THEN <<"LOADING">>
                            ELSE <<"Error">> \o res.err]
    /\ UNCHANGED <<flagVars, prevRun, tsVars, pc, loopVars, checkVars, chanVars, wjob, wout, wtmp,
                   mu, countVars, envVars, fs0, fullPath, recvCount, statSeen, streamCalls,
                   outcome,
                   barCurrent>>

\* Mutant of Fetch: the error of fetchDownloadLink is not looked at.
FetchIgnoreErr(w) ==
    /\ wpc[w] = "fetch"
    /\ fetchCalls' = [fetchCalls EXCEPT ![wjob[w]] = @ + 1]
    /\ wpc' = [wpc EXCEPT ![w] = "get"]
    /\ barTitle' = [barTitle EXCEPT ![wjob[w]] = <<"LOADING">>]
    /\ UNCHANGED <<flagVars, prevRun, tsVars, pc, loopVars, checkVars, chanVars, wjob, wout, wtmp,
                   mu, countVars, envVars, fs0, fullPath, recvCount, statSeen, streamCalls,
                   outcome,
                   barCurrent>>

\* processJob, `fetchDownloadLink(apiKey, relPath)`: an error fails the job
\* and its text goes into the title of the bar.
Fetch(w) ==
    /\ wpc[w] = "fetch"
    /\ fetchCalls' = [fetchCalls EXCEPT ![wjob[w]] = @ + 1]
    /\ LET res == fetchDownloadLink(linkResult[JobPath(wjob[w])])
       IN /\ wpc' = [wpc EXCEPT ![w] = IF res.err = NoErr THEN "get" ELSE "lock"]
          /\ wout' = [wout EXCEPT ![w] = IF res.err = NoErr THEN "none" ELSE "fail"]
          /\ barTitle' = [barTitle EXCEPT ![wjob[w]] =
                            IF res.err = NoErr THEN <<"LOADING">>
                            ELSE <<"Error">> \o res.err]
    /\ UNCHANGED <<flagVars, prevRun, tsVars, pc, loopVars, checkVars, chanVars, wjob, wtmp, mu,
                   countVars, envVars, fs0, fullPath, recvCount, statSeen, streamCalls,
                   outcome,
                   barCurrent>>

\* Mutant of StreamOpen: the parent directories are made before the GET.
StreamOpenMkdirFirst(w) ==
    /\ wpc[w] = "get"
    /\ streamCalls' = [streamCalls EXCEPT ![wjob[w]] = @ + 1]
    /\ LET path == JobPath(wjob[w])
           r == streamResult[path]
       IN IF r \in OpenErrors
          THEN /\ wpc' = [wpc EXCEPT ![w] = "lock"]
               /\ wout' = [wout EXCEPT ![w] = "fail"]
               /\ fs' = fs
               /\ dirs' = IF r = "mkdir_err" THEN dirs ELSE dirs \cup {Dir(path)}
               /\ barTitle' = [barTitle EXCEPT ![wjob[w]] = <<"Failed", "open">>]
          ELSE /\ wpc' = [wpc EXCEPT ![w] = "copy"]
               /\ wout' = wout
               /\ fs' = [fs EXCEPT ![path] = "created"]
               /\ dirs' = dirs \cup {Dir(path)}
               /\ barTitle' = barTitle
    /\ UNCHANGED <<flagVars, prevRun, tsVars, pc, loopVars, checkVars, chanVars, wjob, wtmp, mu,
                   countVars, linkResult, streamResult, fs0, fullPath, recvCount, statSeen,
                   fetchCalls, outcome,
                   barCurrent>>

\* downloadStream up to os.Create: the GET, the status check, MkdirAll
\* and Create, each of which returns its error.  An error of the GET
\* ("open_err") or a status other than 200 ("status_err") returns before
\* MkdirAll; an error of MkdirAll leaves no directory; an error of Create
\* comes after MkdirAll has made the parent directories.  Create makes
\* the file empty, whatever it held.
StreamOpen(w) ==
    /\ wpc[w] = "get"
    /\ streamCalls' = [streamCalls EXCEPT ![wjob[w]] = @ + 1]
    /\ LET path == JobPath(wjob[w])
           r == streamResult[path]
       IN IF r \in OpenErrors
          THEN /\ wpc' = [wpc EXCEPT ![w] = "lock"]
               /\ wout' = [wout EXCEPT ![w] = "fail"]
               /\ fs' = fs
               /\ dirs' = IF r = "create_err" THEN dirs \cup {Dir(path)} ELSE dirs
               /\ barTitle' = [barTitle EXCEPT ![wjob[w]] = <<"Failed", "open">>]
          ELSE /\ wpc' = [wpc EXCEPT ![w] = "copy"]
               /\ wout' = wout
               /\ fs' = [fs EXCEPT ![path] = "created"]
               /\ dirs' = dirs \cup {Dir(path)}
               /\ barTitle' = barTitle
    /\ UNCHANGED <<flagVars, prevRun, tsVars, pc, loopVars, checkVars, chanVars, wjob, wtmp, mu,
                   countVars, linkResult, streamResult, fs0, fullPath, recvCount, statSeen,
                   fetchCalls, outcome,
                   barCurrent>>

\* Mutant of StreamCopy: a failed copy removes the file it was writing.
StreamCopyCleanup(w) ==
    /\ wpc[w] = "copy"
    /\ LET path == JobPath(wjob[w])
       IN IF streamResult[path] = "copy_err"
          THEN /\ wout' = [wout EXCEPT ![w] = "fail"]
               /\ fs' = [fs EXCEPT ![path] = "absent"]
               /\ barTitle' = [barTitle EXCEPT ![wjob[w]] = <<"Failed", "copy">>]
          ELSE /\ wout' = [wout EXCEPT ![w] = "success"]
               /\ fs' = [fs EXCEPT ![path] = "complete"]
               /\ barTitle' = [barTitle EXCEPT ![wjob[w]] = <<"Saved">>]
    /\ wpc' = [wpc EXCEPT ![w] = "lock"]
    /\ UNCHANGED <<flagVars, prevRun, tsVars, pc, loopVars, checkVars, chanVars, wjob, wtmp, mu,
                   countVars, dirs, linkResult, streamResult, fs0, fullPath, recvCount, statSeen,
                   fetchCalls, streamCalls, outcome,
                   barCurrent>>

\* downloadStream, io.Copy through the ProgressReader: an error leaves
\* the file with the bytes that were written, and nothing removes it; the
\* bar is given the bytes of every read.
StreamCopy(w) ==
    /\ wpc[w] = "copy"
    /\ LET path == JobPath(wjob[w])
           c == ioCopy(bodyReads(streamResult[path]), barIsNil)
       IN /\ IF c.err # "nil"
             THEN /\ wout' = [wout EXCEPT ![w] = "fail"]
                  /\ fs' = [fs EXCEPT ![path] = "partial"]
                  /\ barTitle' = [barTitle EXCEPT ![wjob[w]] = <<"Failed", "copy">>]
             ELSE /\ wout' = [wout EXCEPT ![w] = "success"]
                  /\ fs' = [fs EXCEPT ![path] = "complete"]
                  /\ barTitle' = [barTitle EXCEPT ![wjob[w]] = <<"Saved">>]
          /\ barCurrent' = [barCurrent EXCEPT ![wjob[w]] = @ + c.added]
    /\ wpc' = [wpc EXCEPT ![w] = "lock"]
    /\ UNCHANGED <<flagVars, prevRun, tsVars, pc, loopVars, checkVars, chanVars, wjob, wtmp, mu,
                   countVars, dirs, linkResult, streamResult, fs0, fullPath, recvCount, statSeen,
                   fetchCalls, streamCalls, outcome>>

\* Mutant of Lock: the worker does not wait for the mutex.
LockNoWait(w) ==
    /\ wpc[w] = "lock"
    /\ mu' = w
    /\ wpc' = [wpc EXCEPT ![w] = "inc"]
    /\ UNCHANGED <<flagVars, prevRun, tsVars, pc, loopVars, checkVars, chanVars, wjob, wout, wtmp,
                   countVars, envVars, histVars>>

\* mu.Lock()
Lock(w) ==
    /\ wpc[w] = "lock"
    /\ mu = 0
    /\ mu' = w
    /\ wpc' = [wpc EXCEPT ![w] = "inc"]
    /\ UNCHANGED <<flagVars, prevRun, tsVars, pc, loopVars, checkVars, chanVars, wjob, wout, wtmp,
                   countVars, envVars, histVars>>

\* `*counter++`, first half: the counter of the job's branch is read.
Load(w) ==
    /\ wpc[w] = "inc"
    /\ wtmp' = [wtmp EXCEPT ![w] = CASE wout[w] = "success" -> successCount
                                     [] wout[w] = "fail" -> failCount
                                     [] OTHER -> skipCount]
    /\ wpc' = [wpc EXCEPT ![w] = "store"]
    /\ UNCHANGED <<flagVars, prevRun, tsVars, pc, loopVars, checkVars, chanVars, wjob, wout, mu,
                   countVars, envVars, histVars>>

\* Mutant of bump: the skip branch returns without counting.
bumpNoSkip(counter, which, out, loaded) ==
    IF out = which /\ which # "skip" THEN loaded + 1 ELSE counter

\* The counters after `*skip++`, `*fail++` or `*success++`: the counter
\* of the job's branch becomes the value read plus one.
bump(counter, which, out, loaded) ==
    IF out = which THEN loaded + 1 ELSE counter

\* `*counter++`, second half, and `mu.Unlock()`; processJob returns.
IncUnlock(w) ==
    /\ wpc[w] = "store"
    /\ successCount' = bump(successCount, "success", wout[w], wtmp[w])
    /\ failCount' = bump(failCount, "fail", wout[w], wtmp[w])
    /\ skipCount' = bump(skipCount, "skip", wout[w], wtmp[w])
    /\ outcome' = [outcome EXCEPT ![wjob[w]] = wout[w]]
    /\ mu' = 0
    /\ wpc' = [wpc EXCEPT ![w] = "recv"]
    /\ wout' = [wout EXCEPT ![w] = "none"]
    /\ wjob' = [wjob EXCEPT ![w] = 0]
    /\ wtmp' = [wtmp EXCEPT ![w] = 0]
    /\ UNCHANGED <<flagVars, prevRun, tsVars, pc, loopVars, checkVars, chanVars, envVars, fs0, fullPath,
                   recvCount, statSeen, fetchCalls, streamCalls, barTitle, barCurrent>>

(* --------------------------- specifications --------------------------- *)

\* The rule list of the pool runs: one rule, exchange x with pair p.
PoolRules == <<[StartDate |-> 1, Config |-> TableA]>>

\* The environment of a pool run: which destination files exist, and what
\* the link service and the transport answer for each path.  A result that
\* is never asked for (the link of a file that exists, the stream of a
\* path whose link fails) is fixed to the good answer.  The link service
\* answers from the set links.
EnvsOver(paths, links) ==
    { e \in [files : [paths -> {"absent", "exists"}],
             link : [paths -> links],
             stream : [paths -> {"ok", "open_err", "copy_err"}]] :
        \A p \in paths :
            /\ e.files[p] = "exists" => e.link[p] = RespOK
            /\ (e.files[p] = "exists" \/ e.link[p] # RespOK) => e.stream[p] = "ok" }

\* The pool runs: the link is given, or the file is not on the server.
Envs(paths) ==
    EnvsOver(paths, {RespOK, RespNotFound})

PathsOf(js, dType) ==
    { fullPathOf(js[i], dType) : i \in 1..Len(js) }

\* Day mode with --yes: duplicates in --exchanges and --tokens, a range
\* of zero to MaxDate days from day 1, at most MaxJobs jobs, every
\* --parallel from -1 to MaxPar.
Init ==
    /\ mode = "day"
    /\ skipConfirm = TRUE
    /\ configRules = PoolRules
    /\ exchanges \in ListsOf({X}) \ {<<>>}
    /\ tokens \in ListsOf({P}) \ {<<>>}
    /\ start = 1
    /\ end \in 0..MaxDate
    /\ parallelism \in -1..MaxPar
    /\ Len(dateLoop(configRules, start, end, exchanges, tokens)) <= MaxJobs
    /\ \E e \in Envs(PathsOf(dateLoop(configRules, start, end, exchanges, tokens), "trade")) :
        /\ fs = e.files
        /\ linkResult = e.link
        /\ streamResult = e.stream
    /\ InitRest

Next ==
    \/ run
    \/ ExpandDay
    \/ ExpandDone
    \/ ConfirmYes
    \/ Spawn
    \/ Send
    \/ Close
    \/ Wait
    \/ \E w \in Workers : Recv(w)
    \/ \E w \in Workers : Exit(w)
    \/ \E w \in Workers : Stat(w)
    \/ \E w \in Workers : Fetch(w)
    \/ \E w \in Workers : StreamOpen(w)
    \/ \E w \in Workers : StreamCopy(w)
    \/ \E w \in Workers : Lock(w)
    \/ \E w \in Workers : Load(w)
    \/ \E w \in Workers : IncUnlock(w)

Spec == Init /\ [][Next]_vars

\* Day mode up to the confirmation prompt, which the user declines: every
\* rule list, every date, one exchange and one pair.
InitResolve ==
    /\ mode = "day"
    /\ skipConfirm = FALSE
    /\ configRules \in RuleLists
    /\ exchanges = <<X>>
    /\ tokens = <<P>>
    /\ start \in Dates
    /\ end \in Dates
    /\ parallelism = 10
    /\ NoEnv
    /\ InitRest

\* The rule lists over the two tables that list different pairs.
ExpandRuleLists ==
    { r \in RuleLists : \A i \in 1..Len(r) : r[i].Config \in {TableB, TableC} }

\* Day mode up to the confirmation prompt, which the user declines: every
\* list of exchanges and of tokens, every date range.
InitExpand ==
    /\ mode = "day"
    /\ skipConfirm = FALSE
    /\ configRules \in ExpandRuleLists
    /\ exchanges \in ListsOf(UserExchanges)
    /\ tokens \in ListsOf(UserTokens)
    /\ start \in Dates
    /\ end \in Dates
    /\ parallelism = 10
    /\ NoEnv
    /\ InitRest

NextExpand ==
    \/ run
    \/ ExpandDay
    \/ ExpandDone
    \/ ConfirmNo

\* The environments in which no destination file exists: every job asks
\* for its link.
FailureEnvs(paths) ==
    { e \in Envs(paths) : \A p \in paths : e.files[p] = "absent" }

\* Day mode with --yes, one exchange and one pair, no file downloaded
\* yet: one job a day, every pattern of link errors and transport errors
\* over the jobs, one worker and two workers.
InitLive ==
    /\ mode = "day"
    /\ skipConfirm = TRUE
    /\ configRules = PoolRules
    /\ exchanges = <<X>>
    /\ tokens = <<P>>
    /\ start = 1
    /\ end \in 0..MaxJobs
    /\ parallelism \in {1, 2}
    /\ \E e \in FailureEnvs(PathsOf(dateLoop(configRules, start, end, exchanges, tokens), "trade")) :
        /\ fs = e.files
        /\ linkResult = e.link
        /\ streamResult = e.stream
    /\ InitRest

\* The pool under the scheduling of the Go runtime: a goroutine that can
\* take a step is eventually given one, and every request of the model
\* returns (with its result or its error).
SpecLive == InitLive /\ [][Next]_vars /\ WF_vars(Next)

\* Day mode with --yes, one job whose file does not exist or does: every
\* answer of the link service, every result of the transport.
InitLink ==
    /\ mode = "day"
    /\ skipConfirm = TRUE
    /\ configRules = PoolRules
    /\ exchanges = <<X>>
    /\ tokens = <<P>>
    /\ start = 1
    /\ end = start
    /\ parallelism \in 1..MaxPar
    /\ \E e \in EnvsOver(PathsOf(dateLoop(configRules, start, end, exchanges, tokens),
                                  "trade"), Responses) :
        /\ fs = e.files
        /\ linkResult = e.link
        /\ streamResult = e.stream
    /\ InitRest

SpecLink == InitLink /\ [][Next]_vars

\* Both modes, with and without --yes, in one world of files and answers:
\* no exchange, a listed one or an unlisted one, the pair p, a range of
\* zero to MaxJobs days from day 1, one worker and two workers.
InitModes ==
    /\ mode \in {"day", "check"}
    /\ skipConfirm \in BOOLEAN
    /\ configRules = PoolRules
    /\ exchanges \in {<<>>, <<X>>, <<Y>>}
    /\ tokens = <<P>>
    /\ start = 1
    /\ end \in 0..MaxJobs
    /\ parallelism \in {1, 2}
    /\ \E e \in Envs(PathsOf(dateLoop(configRules, start, end, <<X>>, tokens), "trade")) :
        /\ fs = e.files
        /\ linkResult = e.link
        /\ streamResult = e.stream
    /\ InitRest

\* Every step of the program.
NextModes ==
    \/ run
    \/ CheckDay
    \/ CheckDone
    \/ ExpandDay
    \/ ExpandDone
    \/ ConfirmNo
    \/ ConfirmYes
    \/ Spawn
    \/ Send
    \/ Close
    \/ Wait
    \/ \E w \in Workers : Recv(w)
    \/ \E w \in Workers : Exit(w)
    \/ \E w \in Workers : Stat(w)
    \/ \E w \in Workers : Fetch(w)
    \/ \E w \in Workers : StreamOpen(w)
    \/ \E w \in Workers : StreamCopy(w)
    \/ \E w \in Workers : Lock(w)
    \/ \E w \in Workers : Load(w)
    \/ \E w \in Workers : IncUnlock(w)

SpecModes == InitModes /\ [][NextModes]_vars

SpecResolve == InitResolve /\ [][NextExpand]_vars

SpecExpand == InitExpand /\ [][NextExpand]_vars

\* Check mode: every rule list, every date range, with and without filters.
InitCheck ==
    /\ mode = "check"
    /\ skipConfirm = FALSE
    /\ configRules \in RuleLists
    /\ exchanges \in ListsOf(CheckExchanges)
    /\ tokens \in ListsOf(CheckTokens)
    /\ start \in Dates
    /\ end \in Dates
    /\ parallelism = 10
    /\ NoEnv
    /\ InitRest

NextCheck ==
    \/ run
    \/ CheckDay
    \/ CheckDone

SpecCheck == InitCheck /\ [][NextCheck]_vars

\* Filter values as the user may type them for either mode: with and
\* without surrounding white space.
TypedExchanges == {X, <<Sp>> \o X}

TypedTokens == {P, P \o <<Sp>>}

\* Check mode with both filters given: every rule list, every range
\* from day 1.
InitAgree ==
    /\ mode = "check"
    /\ skipConfirm = FALSE
    /\ configRules \in RuleLists
    /\ exchanges \in ListsOf(TypedExchanges) \ {<<>>}
    /\ tokens \in ListsOf(TypedTokens) \ {<<>>}
    /\ start = 1
    /\ end \in Dates
    /\ parallelism = 10
    /\ NoEnv
    /\ InitRest

SpecAgree == InitAgree /\ [][NextCheck]_vars

\* Check mode, the keys of each table visited in every order: every rule
\* list, every range from day 1, with and without filters.
InitOrder ==
    /\ mode = "check"
    /\ skipConfirm = FALSE
    /\ configRules \in RuleLists
    /\ exchanges \in ListsOf(CheckExchanges)
    /\ tokens \in ListsOf(CheckTokens)
    /\ start = 1
    /\ end \in Dates
    /\ parallelism = 10
    /\ NoEnv
    /\ InitRest

NextOrder ==
    \/ run
    \/ CheckDayOrdered
    \/ CheckDone

SpecOrder == InitOrder /\ [][NextOrder]_vars

(* ------------------- the S3 variant: downloadFiles ------------------- *)

\* A file list holds at most MaxFiles files.
MaxFiles == 2

\* An S3FileInfo: exchange, token, key and the optional size.
S3File(exchange, token, key, hasSize, size) ==
    [exchange |-> exchange, token |-> token, key |-> key, hasSize |-> hasSize, size |-> size]

\* The files of the lists: two keys that end in the same name under one
\* exchange and token, and a file of another exchange without a size.
S3Files ==
    { S3File(X, P, <<"a", "/", "k">>, TRUE, 1),
      S3File(X, P, <<"b", "/", "k">>, TRUE, 2),
      S3File(Y, Q, <<"c">>, FALSE, 0) }

\* file.size || 0
sizeOr0(file) ==
    IF file.hasSize THEN file.size ELSE 0

\* files.reduce((sum, f) => sum + (f.size || 0), 0)
RECURSIVE sumSizes(_)
sumSizes(list) ==
    IF list = <<>> THEN 0 ELSE sizeOr0(Head(list)) + sumSizes(Tail(list))

\* file.key.split("/").pop(): what follows the last "/".
popSegment(key) ==
    SubSeq(key, lastSlash(key, Len(key)) + 1, Len(key))

\* `${file.exchange}/${file.token}/${file.key.split("/").pop()}`
fileNameOf(file) ==
    file.exchange \o <<"/">> \o file.token \o <<"/">> \o popSegment(file.key)

\* progress.currentFiles.filter((f) => f !== fileName)
filterOut(list, fileName) ==
    SelectSeq(list, LAMBDA f : f # fileName)

\* An element of `new Array(files.length)` that has not been assigned, and
\* a DownloadResult.
NoFile == S3File(<<>>, <<>>, <<>>, FALSE, 0)

Hole == [isSet |-> FALSE, success |-> FALSE, file |-> NoFile]

DownloadResult(success, file) ==
    [isSet |-> TRUE, success |-> success, file |-> file]

\* A worker: before its first step, awaiting downloadFile for the file at
\* index with the name it pushed, between two files, or returned.
NewWorker == [st |-> "new", index |-> 0, fileName |-> <<>>]

BetweenFiles == [st |-> "loop", index |-> 0, fileName |-> <<>>]

Awaiting(index, fileName) == [st |-> "await", index |-> index, fileName |-> fileName]

EndedWorker == [st |-> "end", index |-> 0, fileName |-> <<>>]

\* The workers between queue.shift and the recording of the result.
InFlightOf(ws) ==
    Cardinality({ w \in DOMAIN ws : ws[w].st = "await" })

\* What a call onProgress?.(progress) shows: the progress object as it is,
\* with the number of downloads in flight at that moment and whether it is
\* the call that follows Promise.all.
snapshot(p, inFlight, final) ==
    [progress |-> p, inFlight |-> inFlight, final |-> final]

\* Mutant of settle: a failed download is counted as completed as well.
settleCountsFailureTwice(p, file, success) ==
    IF success
    THEN [p EXCEPT !.completedFiles = @ + 1, !.downloadedBytes = @ + sizeOr0(file)]
    ELSE [p EXCEPT !.completedFiles = @ + 1, !.failedFiles = @ + 1]

\* The counters after a result: completedFiles++ and downloadedBytes +=
\* file.size || 0, or failedFiles++.
settle(p, file, success) ==
    IF success
    THEN [p EXCEPT !.completedFiles = @ + 1, !.downloadedBytes = @ + sizeOr0(file)]
    ELSE [p EXCEPT !.failedFiles = @ + 1]

\* worker, from `while (queue.length > 0)` to the await: the worker ends,
\* or it shifts an index (1-based here), pushes the file name, calls
\* onProgress and calls downloadFile, which runs to its first await.  st
\* holds queue, progress, the workers, the calls of onProgress of this
\* step and how often each index has been shifted.
loopHead(st, w) ==
    IF st.queue = <<>>
    THEN [st EXCEPT !.tsWorkers[w] = EndedWorker]
    ELSE LET index == Head(st.queue)
             fileName == fileNameOf(fileList[index])
             p == [st.progress EXCEPT !.currentFiles = Append(@, fileName)]
             ws == [st.tsWorkers EXCEPT ![w] = Awaiting(index, fileName)]
         IN [queue |-> Tail(st.queue),
             progress |-> p,
             tsWorkers |-> ws,
             callbacks |-> Append(st.callbacks, snapshot(p, InFlightOf(ws), FALSE)),
             shifted |-> [st.shifted EXCEPT ![index] = @ + 1]]

\* Array.from({ length: n }, () => worker()): each call of worker runs
\* to its first await before the next one is made.
RECURSIVE startWorkers(_, _, _)
startWorkers(st, w, n) ==
    IF w > n THEN st ELSE startWorkers(loopHead(st, w), w + 1, n)

Min(a, b) == IF a < b THEN a ELSE b

\* downloadFiles up to `await Promise.all(workers)`: results, progress,
\* the first call of onProgress, the queue of all indices, the workers.
TsCall ==
    /\ tsPc = "call"
    /\ LET n == Min(concurrency, Len(fileList))
           p == [totalFiles |-> Len(fileList), completedFiles |-> 0, failedFiles |-> 0,
                 currentFiles |-> <<>>, totalBytes |-> sumSizes(fileList),
                 downloadedBytes |-> 0]
           st == startWorkers([queue |-> [i \in 1..Len(fileList) |-> i],
                               progress |-> p,
                               tsWorkers |-> [w \in 1..n |-> NewWorker],
                               callbacks |-> <<snapshot(p, 0, FALSE)>>,
                               shifted |-> [i \in 1..Len(fileList) |-> 0]], 1, n)
       IN /\ queue' = st.queue
          /\ progress' = st.progress
          /\ tsWorkers' = st.tsWorkers
          /\ callbacks' = st.callbacks
          /\ shifted' = st.shifted
    /\ results' = [i \in 1..Len(fileList) |-> Hole]
    /\ tsPc' = "workers"
    /\ UNCHANGED <<fileList, concurrency>>
    /\ UNCHANGED <<flagVars, pc, loopVars, checkVars, chanVars, workerVars, countVars,
                   envVars, histVars, prevRun>>

\* worker w after `await downloadFile(file, s3Client)`, which caught every
\* error into its result: the result is stored at the worker's index, the
\* counters and currentFiles are updated, onProgress is called and the
\* loop goes on to its next await or ends.
TsResume(w) ==
    /\ tsPc = "workers"
    /\ w \in DOMAIN tsWorkers
    /\ tsWorkers[w].st = "await"
    /\ \E success \in BOOLEAN :
        LET index == tsWorkers[w].index
            file == fileList[index]
            p == [settle(progress, file, success)
                    EXCEPT !.currentFiles = filterOut(@, tsWorkers[w].fileName)]
            ws == [tsWorkers EXCEPT ![w] = BetweenFiles]
            st == loopHead([queue |-> queue,
                            progress |-> p,
                            tsWorkers |-> ws,
                            callbacks |-> <<snapshot(p, InFlightOf(ws), FALSE)>>,
                            shifted |-> shifted], w)
        IN /\ results' = [results EXCEPT ![index] = DownloadResult(success, file)]
           /\ queue' = st.queue
           /\ progress' = st.progress
           /\ tsWorkers' = st.tsWorkers
           /\ callbacks' = st.callbacks
           /\ shifted' = st.shifted
    /\ UNCHANGED <<fileList, concurrency, tsPc>>
    /\ UNCHANGED <<flagVars, pc, loopVars, checkVars, chanVars, workerVars, countVars,
                   envVars, histVars, prevRun>>

\* downloadFiles after Promise.all: currentFiles = [], the last call of
\* onProgress, return results.
TsReturn ==
    /\ tsPc = "workers"
    /\ \A w \in DOMAIN tsWorkers : tsWorkers[w].st = "end"
    /\ progress' = [progress EXCEPT !.currentFiles = <<>>]
    /\ callbacks' = <<snapshot(progress', 0, TRUE)>>
    /\ tsPc' = "returned"
    /\ UNCHANGED <<fileList, concurrency, queue, results, tsWorkers, shifted>>
    /\ UNCHANGED <<flagVars, pc, loopVars, checkVars, chanVars, workerVars, countVars,
                   envVars, histVars, prevRun>>

\* downloadFiles is called with a list of at most MaxFiles files, repeated
\* ones included, and a concurrency from 1 to MaxPar; the Go program is
\* not part of the run.
InitS3 ==
    /\ fileList \in UNION { [1..n -> S3Files] : n \in 0..MaxFiles }
    /\ concurrency \in 1..MaxPar
    /\ tsPc = "call"
    /\ queue = <<>>
    /\ results = <<>>
    /\ progress = NoProgress
    /\ tsWorkers = <<>>
    /\ callbacks = <<>>
    /\ shifted = <<>>
    /\ mode = "day"
    /\ skipConfirm = FALSE
    /\ configRules = PoolRules
    /\ exchanges = <<>>
    /\ tokens = <<>>
    /\ start = 1
    /\ end = 1
    /\ parallelism = 10
    /\ NoEnv
    /\ dataType = "trade"
    /\ pc = "run"
    /\ startDate = FormatDate(civil(start))
    /\ endDate = FormatDate(civil(end))
    /\ metadata = dirOf(configRules)
    /\ InitZero

NextS3 ==
    \/ TsCall
    \/ \E w \in Workers : TsResume(w)
    \/ TsReturn

SpecS3 == InitS3 /\ [][NextS3]_vars

(* ---------------------- the first variant's run ---------------------- *)

\* threshold, _ := time.Parse("2006-01-02", "2025-10-02")
threshold ==
    timeParse("-", <<"2", "0", "2", "5", "-", "1", "0", "-", "0", "2">>).date

\* The days in the names of the two embedded files, _2025_01_01.json and
\* _2025_10_02.json.
FirstFileDay == daysFromCivil(2025, 1, 1)

SecondFileDay == daysFromCivil(2025, 10, 2)

\* The first variant's choice of the table for a date: config1 before
\* the threshold, config2 from it on.
firstActiveConfig(config1, config2, date) ==
    IF date < threshold THEN config1 ELSE config2

\* The first variant's run up to the date loop: the mode is day, the
\* lists are not empty, the dates are parsed; config1 and config2 are the
\* tables of the two files, here configRules[1] and configRules[2].
firstRun ==
    /\ pc = "run"
    /\ pc' = IF mode # "day" \/ Len(exchanges) = 0 \/ Len(tokens) = 0
             THEN "exit1" ELSE "expand1"
    /\ curr' = start
    /\ UNCHANGED <<flagVars, prevRun, tsVars, activeConfig, jobs, checkVars, chanVars, workerVars,
                   countVars, envVars, histVars>>

\* The first variant's run: one iteration of `for !curr.After(end)`.
firstExpandDay ==
    /\ pc = "expand1"
    /\ ~(curr > end)
    /\ activeConfig' = SomeConfig(firstActiveConfig(configRules[1].Config,
                                                    configRules[2].Config, curr))
    /\ jobs' = jobs \o exchangesLoop(activeConfig'.table, exchanges, tokens, curr)
    /\ curr' = curr + 1
    /\ UNCHANGED <<flagVars, prevRun, tsVars, pc, checkVars, chanVars, workerVars, countVars,
                   envVars, histVars>>

\* The first variant's run after the loop: no job, or the summary and the
\* prompt.
firstExpandDone ==
    /\ pc = "expand1"
    /\ curr > end
    /\ pc' = IF Len(jobs) = 0 THEN "nomatch" ELSE "confirm"
    /\ UNCHANGED <<flagVars, prevRun, tsVars, loopVars, checkVars, chanVars, workerVars, countVars,
                   envVars, histVars>>

\* The days around the two file days.
FirstDates ==
    { base + k : base \in {FirstFileDay - 1, SecondFileDay - 1}, k \in 0..(MaxDate - 1) }

\* The first variant with its two files holding any two tables, ranges of
\* up to MaxDate days around the two file days.
InitFirst ==
    /\ mode = "day"
    /\ skipConfirm = FALSE
    /\ \E t1 \in Tables, t2 \in Tables :
        configRules = <<[StartDate |-> FirstFileDay, Config |-> t1],
                        [StartDate |-> SecondFileDay, Config |-> t2]>>
    /\ exchanges \in {<<X>>, <<Y, X>>}
    /\ tokens \in {<<P>>, <<P, Q>>}
    /\ start \in FirstDates
    /\ end \in { start + k : k \in 0..(MaxDate - 1) }
    /\ parallelism = 10
    /\ NoEnv
    /\ InitRest

NextFirst ==
    \/ firstRun
    \/ firstExpandDay
    \/ firstExpandDone

SpecFirst == InitFirst /\ [][NextFirst]_vars

\* The names of the example of the documentation, as text.
Binance == <<"b", "i", "n", "a", "n", "c", "e">>

BtcUsdt == <<"b", "t", "c", "_", "u", "s", "d", "t">>

\* A rule file that lists binance with btc_usdt and x with p.
PathRules ==
    <<[StartDate |-> 0,
       Config |-> [e \in {Binance, X} |-> IF e = Binance THEN <<BtcUsdt>> ELSE <<P>>]]>>

\* The days --start-date is drawn from: the days from 0000-01-01, around
\* the end of a century February, around a leap day, from the day of the
\* example, and up to 9999-12-31.
PathDates ==
    { base + k : base \in {daysFromCivil(0, 1, 1), daysFromCivil(1900, 2, 27),
                           daysFromCivil(2024, 2, 28), daysFromCivil(2025, 11, 2),
                           daysFromCivil(9999, 12, 31) - MaxDate},
                 k \in 0..MaxDate }

\* Day mode with --yes and one job: either --type, either exchange, every
\* day of PathDates.
InitPath ==
    /\ mode = "day"
    /\ skipConfirm = TRUE
    /\ dataType \in {"trade", "derivative"}
    /\ configRules = PathRules
    /\ exchanges \in {<<Binance>>, <<X>>}
    /\ tokens = IF exchanges = <<X>> THEN <<P>> ELSE <<BtcUsdt>>
    /\ start \in PathDates
    /\ end = start
    /\ parallelism = 1
    /\ \E e \in Envs(PathsOf(dateLoop(configRules, start, end, exchanges, tokens), dataType)) :
        /\ fs = e.files
        /\ linkResult = e.link
        /\ streamResult = e.stream
    /\ InitState

SpecPath == InitPath /\ [][Next]_vars

\* The texts of --start-date and --end-date: days time.Parse accepts, and
\* texts it rejects (one digit for month and day, a day outside its
\* month, the layout of the file names, no such month).
GoodDateTexts ==
    { <<"0", "0", "0", "0", "-", "0", "1", "-", "0", "2">>,
      <<"0", "0", "0", "0", "-", "0", "1", "-", "0", "3">> }

BadDateTexts ==
    { <<"0", "0", "0", "0", "-", "1", "-", "2">>,
      <<"0", "0", "0", "1", "-", "0", "2", "-", "2", "9">>,
      <<"0", "0", "0", "0", "_", "0", "1", "_", "0", "2">>,
      <<"0", "0", "0", "0", "-", "1", "3", "-", "0", "1">> }

DateTexts ==
    {<<>>} \cup GoodDateTexts \cup BadDateTexts

\* What a directory metadata/<type> may hold, in the order of ReadDir
\* (sorted by name): 0000-01-02.json and _0000_01_01.json with tables,
\* _0000_01_03.json that is not JSON, _0000_01_04.json that cannot be
\* read, _notes.json that is not JSON, and a directory archive.json.
AllEntries ==
    << Entry(<<"0", "0", "0", "0", "-", "0", "1", "-", "0", "2", ".json">>, FALSE, "json", TableA),
       Entry(ruleFileName(0), FALSE, "json", TableB),
       Entry(ruleFileName(2), FALSE, "invalid", EmptyTable),
       Entry(ruleFileName(3), FALSE, "unreadable", EmptyTable),
       Entry(<<"_", "n", "o", "t", "e", "s", ".json">>, FALSE, "invalid", EmptyTable),
       Entry(<<"a", "r", "c", "h", "i", "v", "e", ".json">>, TRUE, "unreadable", EmptyTable) >>

\* The entries of AllEntries at the positions S, in order.
RECURSIVE entriesAt(_, _)
entriesAt(S, i) ==
    IF i > Len(AllEntries) THEN <<>>
    ELSE (IF i \in S THEN <<AllEntries[i]>> ELSE <<>>) \o entriesAt(S, i + 1)

\* The directories: every choice among AllEntries, and no directory at
\* all (a --type without metadata).
Dirs ==
    { [exists |-> TRUE, entries |-> entriesAt(S, 1)] : S \in SUBSET (1..Len(AllEntries)) }
        \cup { [exists |-> FALSE, entries |-> <<>>] }

\* The arguments of a run over the directory that holds PoolRules: every
\* mode, with and without exchanges and tokens, every text for the dates.
ArgsFamily ==
    /\ mode \in {"day", "check", "month"}
    /\ exchanges \in {<<>>, <<X>>}
    /\ tokens \in {<<>>, <<P>>}
    /\ startDate \in DateTexts
    /\ endDate \in DateTexts
    /\ metadata = dirOf(PoolRules)

\* Day mode with good arguments over every directory.
DirsFamily ==
    /\ mode = "day"
    /\ exchanges = <<X>>
    /\ tokens = <<P>>
    /\ startDate \in GoodDateTexts
    /\ endDate = <<>>
    /\ metadata \in Dirs

\* The process as main starts it: the flags are set, nothing is parsed or
\* loaded; the jobs that can arise are x, p on the two days of
\* GoodDateTexts.
InitArgs ==
    /\ pc = "args"
    /\ dataType = "trade"
    /\ skipConfirm = TRUE
    /\ parallelism = 1
    /\ ArgsFamily \/ DirsFamily
    /\ start = 0
    /\ end = 0
    /\ configRules = <<>>
    /\ \E e \in Envs({ fullPathOf(NewJob(X, P, d), "trade") : d \in 1..2 }) :
        /\ fs = e.files
        /\ linkResult = e.link
        /\ streamResult = e.stream
    /\ TsIdle
    /\ InitZero

\* Every step of the program with --yes.
NextArgs ==
    \/ runParseDates
    \/ runLoadRules
    \/ run
    \/ CheckDay
    \/ CheckDone
    \/ ExpandDay
    \/ ExpandDone
    \/ ConfirmYes
    \/ Spawn
    \/ Send
    \/ Close
    \/ Wait
    \/ \E w \in Workers : Recv(w)
    \/ \E w \in Workers : Exit(w)
    \/ \E w \in Workers : Stat(w)
    \/ \E w \in Workers : Fetch(w)
    \/ \E w \in Workers : StreamOpen(w)
    \/ \E w \in Workers : StreamCopy(w)
    \/ \E w \in Workers : Lock(w)
    \/ \E w \in Workers : Load(w)
    \/ \E w \in Workers : IncUnlock(w)

SpecArgs == InitArgs /\ [][NextArgs]_vars

\* The environments of the runs that watch the progress bar: the body
\* arrives in every way bodyReads knows.
BarEnvs(paths) ==
    { e \in [files : [paths -> {"absent", "exists"}],
             link : [paths -> {RespOK, RespNotFound}],
             stream : [paths -> {"ok", "ok_chunks", "open_err", "copy_err", "copy_err_data"}]] :
        \A p \in paths :
            /\ e.files[p] = "exists" => e.link[p] = RespOK
            /\ (e.files[p] = "exists" \/ e.link[p] # RespOK) => e.stream[p] = "ok" }

\* Day mode with --yes, one exchange and one pair, one job a day, one
\* worker and two workers.
InitBar ==
    /\ mode = "day"
    /\ skipConfirm = TRUE
    /\ configRules = PoolRules
    /\ exchanges = <<X>>
    /\ tokens = <<P>>
    /\ start = 1
    /\ end \in 0..MaxJobs
    /\ parallelism \in {1, 2}
    /\ \E e \in BarEnvs(PathsOf(dateLoop(configRules, start, end, exchanges, tokens), "trade")) :
        /\ fs = e.files
        /\ linkResult = e.link
        /\ streamResult = e.stream
    /\ InitRest

SpecBar == InitBar /\ [][Next]_vars

\* The environments after a run that left the files fs: a file is there
\* or not as the run left it, the link service and the transport answer
\* anew.
EnvsAfter(files) ==
    { e \in Envs(DOMAIN files) :
        \A p \in DOMAIN files : e.files[p] = "exists" <=> files[p] # "absent" }

\* The program is started a second time with the same flags after the
\* first run has printed its summary: the package variables are zero
\* again and run starts over, while the files under downloads/ are the
\* ones the first run left.  prevRun keeps the first run's outcomes.
Rerun ==
    /\ pc = "done"
    /\ ~prevRun.ran
    /\ prevRun' = [ran |-> TRUE, fs0 |-> fs0, outcome |-> outcome]
    /\ pc' = "run"
    /\ fs' = fs
    /\ dirs' = dirs
    /\ fs0' = fs
    /\ \E e \in EnvsAfter(fs) :
        /\ linkResult' = e.link
        /\ streamResult' = e.stream
    /\ curr' = 0
    /\ activeConfig' = NilConfig
    /\ jobs' = <<>>
    /\ spawned' = 0
    /\ sent' = 0
    /\ jobsCh' = <<>>
    /\ closed' = FALSE
    /\ wpc' = [w \in Workers |-> "none"]
    /\ wjob' = [w \in Workers |-> 0]
    /\ wout' = [w \in Workers |-> "none"]
    /\ wtmp' = [w \in Workers |-> 0]
    /\ mu' = 0
    /\ successCount' = 0
    /\ failCount' = 0
    /\ skipCount' = 0
    /\ fullPath' = <<>>
    /\ recvCount' = <<>>
    /\ statSeen' = <<>>
    /\ fetchCalls' = <<>>
    /\ streamCalls' = <<>>
    /\ barTitle' = <<>>
    /\ barCurrent' = <<>>
    /\ outcome' = <<>>
    /\ UNCHANGED <<flagVars, checkVars, tsVars>>

\* Day mode with --yes, one exchange and one pair, one job a day over
\* one to MaxJobs days: files that exist or not, every pattern of link
\* and transport errors, one worker and two workers; then the same
\* command once more.
InitRerun ==
    /\ mode = "day"
    /\ skipConfirm = TRUE
    /\ configRules = PoolRules
    /\ exchanges = <<X>>
    /\ tokens = <<P>>
    /\ start = 1
    /\ end \in 1..MaxJobs
    /\ parallelism \in {1, 2}
    /\ \E e \in Envs(PathsOf(dateLoop(configRules, start, end, exchanges, tokens), "trade")) :
        /\ fs = e.files
        /\ linkResult = e.link
        /\ streamResult = e.stream
    /\ InitRest

NextRerun ==
    \/ Next
    \/ Rerun

SpecRerun == InitRerun /\ [][NextRerun]_vars

\* The environments of the runs that watch downloadStream: the GET
\* fails, answers with another status than 200, MkdirAll fails, Create
\* fails, the copy fails, or all goes well.
StreamEnvs(paths) ==
    { e \in [files : [paths -> {"absent", "exists"}],
             link : [paths -> {RespOK, RespNotFound}],
             stream : [paths -> {"ok", "open_err", "status_err", "mkdir_err",
                                 "create_err", "copy_err"}]] :
        \A p \in paths :
            /\ e.files[p] = "exists" => e.link[p] = RespOK
            /\ (e.files[p] = "exists" \/ e.link[p] # RespOK) => e.stream[p] = "ok" }

\* Day mode with --yes, one exchange and one pair, one job a day, one
\* worker and two workers.
InitStream ==
    /\ mode = "day"
    /\ skipConfirm = TRUE
    /\ configRules = PoolRules
    /\ exchanges = <<X>>
    /\ tokens = <<P>>
    /\ start = 1
    /\ end \in 0..MaxJobs
    /\ parallelism \in {1, 2}
    /\ \E e \in StreamEnvs(PathsOf(dateLoop(configRules, start, end, exchanges, tokens), "trade")) :
        /\ fs = e.files
        /\ linkResult = e.link
        /\ streamResult = e.stream
    /\ InitRest

SpecStream == InitStream /\ [][Next]_vars

(* ------------------------------- claims ------------------------------- *)

Sum == successCount + failCount + skipCount

PoolJobs == DOMAIN outcome

\* C1: with --parallel >= 1 the three counters never add up to more than
\* the number of jobs, and once wg.Wait has returned they add up to it.
C1_CounterInvariant ==
    parallelism >= 1 =>
        /\ Sum <= Len(jobs)
        /\ pc = "done" => Sum = Len(jobs)

C1_Witness ==
    /\ pc = "done"
    /\ parallelism = 2
    /\ Len(jobs) = 2
    /\ successCount = 1
    /\ failCount = 1

\* What one worker alone does with the job list: processJob on each job
\* in turn, on the files the jobs before it left.  <<success, fail, skip>>.
RECURSIVE SeqCounters(_, _, _)
SeqCounters(paths, files, acc) ==
    IF paths = <<>> THEN acc
    ELSE LET p == Head(paths)
         IN IF files[p] # "absent"
            THEN SeqCounters(Tail(paths), files, [acc EXCEPT ![3] = @ + 1])
            ELSE IF fetchDownloadLink(linkResult[p]).err # NoErr \/ streamResult[p] = "open_err"
            THEN SeqCounters(Tail(paths), files, [acc EXCEPT ![2] = @ + 1])
            ELSE IF streamResult[p] = "copy_err"
            THEN SeqCounters(Tail(paths), [files EXCEPT ![p] = "partial"],
                             [acc EXCEPT ![2] = @ + 1])
            ELSE SeqCounters(Tail(paths), [files EXCEPT ![p] = "complete"],
                             [acc EXCEPT ![1] = @ + 1])

JobPaths == [j \in 1..Len(jobs) |-> JobPath(j)]

\* C2: for the same jobs, files and per-path results, every run with
\* --parallel >= 1 ends with the counters of the run with --parallel 1.
C2_SameCountersAsSequential ==
    (pc = "done" /\ parallelism >= 1) =>
        <<successCount, failCount, skipCount>> = SeqCounters(JobPaths, fs0, <<0, 0, 0>>)

AllExisted ==
    \A p \in DOMAIN fs0 : fs0[p] = "exists"

\* C3: when every destination file exists before the run, a run with
\* --parallel >= 1 ends with skipped = total, success = 0, failed = 0.
C3_AllSkippedWhenAllExist ==
    (pc = "done" /\ parallelism >= 1 /\ AllExisted) =>
        /\ skipCount = Len(jobs)
        /\ successCount = 0
        /\ failCount = 0

C3_Witness ==
    /\ pc = "done"
    /\ parallelism = 2
    /\ AllExisted
    /\ Cardinality(DOMAIN fs0) = 2
    /\ skipCount = 2

\* C4: a job's link is fetched and its stream opened only after its
\* existence check found no file; a job whose check found the file makes
\* neither call and is recorded Skipped.
C4_StatBeforeNetwork ==
    \A j \in PoolJobs :
        /\ (fetchCalls[j] > 0 \/ streamCalls[j] > 0) => statSeen[j] = "absent"
        /\ statSeen[j] = "exists" =>
            /\ fetchCalls[j] = 0
            /\ streamCalls[j] = 0
            /\ outcome[j] \in {"none", "skip"}
            /\ pc = "done" => outcome[j] = "skip"

C4_Witness ==
    /\ pc = "done"
    /\ \E j \in PoolJobs : statSeen[j] = "exists" /\ outcome[j] = "skip"
    /\ \E j \in PoolJobs : statSeen[j] = "absent" /\ streamCalls[j] = 1

\* C5: every job is received from the channel at most once, no two workers
\* hold the same job, and when the pool has finished with --parallel >= 1
\* every job was received once and has its outcome.
C5_EachJobOnce ==
    /\ \A j \in PoolJobs : recvCount[j] <= 1
    /\ \A v, w \in Workers : (v # w /\ wjob[v] # 0) => wjob[v] # wjob[w]
    /\ (pc = "done" /\ parallelism >= 1) =>
        \A j \in PoolJobs : recvCount[j] = 1 /\ outcome[j] # "none"

C5_Witness ==
    /\ pc = "done"
    /\ parallelism = 2
    /\ Len(jobs) = 2
    /\ \A j \in PoolJobs : recvCount[j] = 1 /\ outcome[j] # "none"

\* A worker between its existence check (no file found) and the end of
\* downloadStream.
InFlight(w) ==
    wpc[w] \in {"fetch", "get", "copy"}

\* C6: no two workers are at once between the existence check and the end
\* of streaming for the same destination path.
C6_NoTwoWorkersOnOnePath ==
    \A v, w \in Workers :
        (v # w /\ InFlight(v) /\ InFlight(w)) => JobPath(wjob[v]) # JobPath(wjob[w])

\* The rules whose effective date is not after date d.
Qualifying(rules, d) ==
    { i \in 1..Len(rules) : rules[i].StartDate <= d }

\* Among them, the rule with the greatest effective date.
Greatest(rules, d) ==
    CHOOSE i \in Qualifying(rules, d) :
        \A k \in Qualifying(rules, d) : rules[k].StartDate <= rules[i].StartDate

\* What resolution of date d must return.
Resolved(rules, d) ==
    IF Qualifying(rules, d) = {} THEN NilConfig
    ELSE SomeConfig(rules[Greatest(rules, d)].Config)

\* C7: for every query date getConfigForDate returns the table of the rule
\* with the greatest effective date <= the date, and nil exactly when the
\* date precedes every rule; so does the call the date loop just made.
C7_ResolveGreatestRule ==
    /\ \A d \in 0..(MaxDate + 1) :
        /\ getConfigForDate(configRules, d) = Resolved(configRules, d)
        /\ getConfigForDate(configRules, d).isNil
            <=> \A i \in 1..Len(configRules) : d < configRules[i].StartDate
    /\ curr > start => activeConfig = Resolved(configRules, curr - 1)

C7_Witness ==
    /\ curr > start
    /\ Len(configRules) = 2
    /\ configRules[1].Config # configRules[2].Config
    /\ configRules[1].StartDate < curr - 1
    /\ configRules[2].StartDate = curr - 1
    /\ activeConfig = SomeConfig(configRules[2].Config)

\* The pair is listed under the exchange in the table resolved for date d.
Listed(ex, pair, d) ==
    /\ ~Resolved(configRules, d).isNil
    /\ ex \in DOMAIN Resolved(configRules, d).table
    /\ \E k \in 1..Len(Resolved(configRules, d).table[ex]) :
        Resolved(configRules, d).table[ex][k] = pair

\* C8: every job has a date in [start, end], and its pair is listed under
\* its exchange in the table resolved for that very date.
C8_JobsAreAvailable ==
    \A i \in 1..Len(jobs) :
        /\ start <= jobs[i].Date
        /\ jobs[i].Date <= end
        /\ Listed(jobs[i].Exchange, jobs[i].Pair, jobs[i].Date)

\* A job of the second rule whose pair the first rule does not list
\* for that exchange, in a range that starts under the first rule.
C8_Witness ==
    /\ pc = "confirm"
    /\ Len(configRules) = 2
    /\ configRules[1].StartDate <= start
    /\ \E i \in 1..Len(jobs) :
        /\ jobs[i].Date >= configRules[2].StartDate
        /\ jobs[i].Exchange \in DOMAIN configRules[1].Config
        /\ ~contains(configRules[1].Config[jobs[i].Exchange], jobs[i].Pair)

ExpansionOver == pc \in {"nomatch", "confirm", "aborted"}

NDays == IF end < start THEN 0 ELSE end - start + 1

\* The k-th (date, exchange, token) triple: dates ascending, then the
\* exchanges, then the tokens, in the order given.
Candidate(k) ==
    [Date |-> start + ((k - 1) \div (Len(exchanges) * Len(tokens))),
     Exchange |-> TrimSpace(exchanges[(((k - 1) \div Len(tokens)) % Len(exchanges)) + 1]),
     Pair |-> TrimSpace(tokens[((k - 1) % Len(tokens)) + 1])]

IsAvailable(c) ==
    Listed(c.Exchange, c.Pair, c.Date)

Candidates ==
    [k \in 1..(NDays * Len(exchanges) * Len(tokens)) |-> Candidate(k)]

Triple(job) ==
    [Date |-> job.Date, Exchange |-> job.Exchange, Pair |-> job.Pair]

\* C9: the job list is the sequence of all (date, exchange, token)
\* triples in that order, reduced to the available ones.
C9_JobsAreTheAvailableTriples ==
    ExpansionOver =>
        [i \in 1..Len(jobs) |-> Triple(jobs[i])] = SelectSeq(Candidates, IsAvailable)

\* Two exchanges and two tokens over several days, some triples left out.
C9_Witness ==
    /\ pc = "confirm"
    /\ Len(exchanges) = 2
    /\ Len(tokens) = 2
    /\ exchanges[1] # exchanges[2]
    /\ tokens[1] # tokens[2]
    /\ Len(jobs) >= 3
    /\ Len(jobs) < Len(Candidates)
    /\ jobs[1].Date < jobs[Len(jobs)].Date

\* The filtered table of date d.
Filtered(d) ==
    dayDataOf(getConfigForDate(configRules, d), exchanges, tokens)

\* a..b is a maximal run of dates of [start, end] with one filtered table.
MaximalRun(a, b) ==
    /\ start <= a
    /\ a <= b
    /\ b <= end
    /\ \A d \in a..b : Filtered(d) = Filtered(a)
    /\ a = start \/ Filtered(a - 1) # Filtered(a)
    /\ b = end \/ Filtered(b + 1) # Filtered(b)

Covering(a, b) ==
    { i \in 1..Len(blocks) : blocks[i].Start <= a /\ b <= blocks[i].End }

Touching(a, b) ==
    { i \in 1..Len(blocks) : blocks[i].Start <= b /\ a <= blocks[i].End }

BlocksAreUniform ==
    \A i \in 1..Len(blocks) :
        \A d \in blocks[i].Start..blocks[i].End : Filtered(d) = blocks[i].Data

\* C10 as stated: every maximal run of dates with identical filtered
\* tables is covered by exactly one block, no block spans two different
\* tables, no run is split.
C10_EveryRunHasOneBlock ==
    pc = "reported" =>
        /\ BlocksAreUniform
        /\ \A a, b \in Dates :
            MaximalRun(a, b) =>
                /\ Cardinality(Covering(a, b)) = 1
                /\ Cardinality(Touching(a, b)) = 1

\* C10 amended: every maximal run of dates with identical NON-EMPTY
\* filtered tables is covered by exactly one block, which touches no other
\* date; a run of dates with an empty filtered table is touched by no
\* block; no block spans two different tables.
C10_EveryNonEmptyRunHasOneBlock ==
    pc = "reported" =>
        /\ BlocksAreUniform
        /\ \A a, b \in Dates :
            MaximalRun(a, b) =>
                IF Filtered(a) = EmptyTable
                THEN Touching(a, b) = {}
                ELSE /\ Cardinality(Covering(a, b)) = 1
                     /\ Cardinality(Touching(a, b)) = 1
                     /\ \A i \in Covering(a, b) :
                            blocks[i].Start = a /\ blocks[i].End = b

\* A day without data, then one block merged over two rules whose tables
\* differ but filter to the same table.
C10_Witness ==
    /\ pc = "reported"
    /\ Len(blocks) = 1
    /\ start < blocks[1].Start
    /\ Len(configRules) = 2
    /\ configRules[1].Config # configRules[2].Config
    /\ blocks[1].Start = configRules[1].StartDate
    /\ blocks[1].End >= configRules[2].StartDate

\* C11: the blocks are in strictly ascending date order and never overlap:
\* each block starts no later than it ends, each block ends before the
\* next one starts, and the block still open in the loop starts after the
\* last closed one ends.
C11_BlocksAscendDisjoint ==
    /\ \A i \in 1..Len(blocks) : blocks[i].Start <= blocks[i].End
    /\ \A i \in 1..(Len(blocks) - 1) : blocks[i].End < blocks[i + 1].Start
    /\ (pc = "check" /\ ~currentBlock.isNil /\ Len(blocks) > 0) =>
        blocks[Len(blocks)].End < currentBlock.Start

\* Two blocks on consecutive days, the first of more than one day.
C11_Witness ==
    /\ pc = "reported"
    /\ Len(blocks) = 2
    /\ blocks[1].Start < blocks[1].End
    /\ blocks[1].End + 1 = blocks[2].Start

\* fetchDownloadLink returns an error for job j.
LinkFails(j) ==
    fetchDownloadLink(linkResult[JobPath(j)]).err # NoErr

FailedJobs == { j \in PoolJobs : outcome[j] = "fail" }

\* C12: a job whose link request returns an error makes that one request
\* and no other, never opens a stream, is recorded Failed and nothing
\* else, once (it is received once and the failed counter is the number of
\* jobs recorded Failed), and the pool still gives every job its outcome.
C12_LinkErrorFailsOnceNoRetry ==
    /\ \A j \in PoolJobs :
        /\ fetchCalls[j] <= 1
        /\ recvCount[j] <= 1
        /\ (fetchCalls[j] = 1 /\ LinkFails(j)) =>
            /\ streamCalls[j] = 0
            /\ outcome[j] \in {"none", "fail"}
            /\ barTitle[j][1] = "Error"
    /\ failCount = Cardinality(FailedJobs)
    /\ (pc = "done" /\ parallelism >= 1) =>
        \A j \in PoolJobs :
            /\ outcome[j] # "none"
            /\ (statSeen[j] = "absent" /\ LinkFails(j)) =>
                fetchCalls[j] = 1 /\ outcome[j] = "fail"

\* One worker: the link of the first job fails, the second job is then
\* received by the same worker and saved.
C12_Witness ==
    /\ pc = "done"
    /\ parallelism = 1
    /\ Len(jobs) = 2
    /\ LinkFails(1)
    /\ fetchCalls[1] = 1
    /\ outcome[1] = "fail"
    /\ outcome[2] = "success"
    /\ failCount = 1

\* The outcome the job's own existence check and own requests call for.
OwnOutcome(j) ==
    IF statSeen[j] = "exists" THEN "skip"
    ELSE IF LinkFails(j) \/ streamResult[JobPath(j)] # "ok" THEN "fail"
    ELSE "success"

PoolOver ==
    /\ pc = "done"
    /\ \A j \in PoolJobs : recvCount[j] = 1 /\ outcome[j] = OwnOutcome(j)

\* C13: whatever link and transport errors the jobs meet, a pool started
\* with --parallel >= 1 reaches the final summary, and by then every job
\* was received and has the outcome of its own check and requests.
C13_ErrorsNeverStopThePool ==
    (pc = "pool" /\ parallelism >= 1) ~> PoolOver

\* Two workers: the link of the first job fails, the stream of the second
\* cannot be opened, and the summary is reached with both recorded.
C13_Witness ==
    /\ PoolOver
    /\ parallelism = 2
    /\ Len(jobs) = 2
    /\ LinkFails(1)
    /\ streamResult[JobPath(2)] = "open_err"
    /\ failCount = 2

\* The error text the decision table gives for the answer r of the link
\* service; NoErr for status 200 with a body that decodes.
TableErr(r) ==
    CASE r.status = 200 /\ r.json -> NoErr
      [] r.status = 200 /\ ~r.json -> <<"invalid json">>
      [] r.status = 0 -> <<"transport">>
      [] r.status \notin {0, 200} /\ r.message # "" -> <<r.message>>
      [] r.status = 404 /\ r.message = "" -> <<"file not found on server">>
      [] OTHER -> <<"api status %d", r.status>>

\* C14: once the link of a job was asked for, the answer is classified by
\* the decision table: status 200 with a body that decodes gives the url
\* and the size and no error, and the job goes on to the download; a
\* non-200 answer with a message gives that message as the error (404
\* included), 404 without message gives "file not found on server", any
\* other status N without message gives "api status N"; with any error
\* the title shows it, the job is recorded Failed and nothing else, and
\* the run ends with failed = 1.
C14_LinkDecisionTable ==
    \A j \in PoolJobs :
        fetchCalls[j] > 0 =>
            LET r == linkResult[JobPath(j)]
                res == fetchDownloadLink(r)
            IN /\ res.err = TableErr(r)
               /\ (r.status = 200 /\ r.json) =>
                    /\ res.url = "download_url"
                    /\ res.size = 1
                    /\ barTitle[j][1] # "Error"
                    /\ pc = "done" => streamCalls[j] = 1
               /\ TableErr(r) # NoErr =>
                    /\ barTitle[j] = <<"Error">> \o TableErr(r)
                    /\ streamCalls[j] = 0
                    /\ outcome[j] \in {"none", "fail"}
                    /\ pc = "done" =>
                        outcome[j] = "fail" /\ failCount = 1 /\ successCount = 0

\* Status 404 with a message: the message is the error, and the job is
\* recorded Failed.
C14_Witness ==
    /\ pc = "done"
    /\ Len(jobs) = 1
    /\ linkResult[JobPath(1)] = Response(404, TRUE, "denied")
    /\ barTitle[1] = <<"Error", "denied">>
    /\ outcome[1] = "fail"
    /\ failCount = 1

\* The io.Copy of worker w fails in this step.
CopyFails(w) ==
    /\ wpc[w] = "copy"
    /\ wpc'[w] = "lock"
    /\ streamResult[JobPath(wjob[w])] = "copy_err"

\* Worker w, its job marked Failed, takes a step on the way to recording it.
FailureStep(w) ==
    /\ wout[w] = "fail"
    /\ wpc[w] \in {"lock", "inc", "store"}
    /\ wpc'[w] # wpc[w]

\* The jobs recorded with a copy that failed after the file was created.
CopyFailedJobs ==
    { j \in PoolJobs : /\ outcome[j] # "none"
                       /\ streamCalls[j] = 1
                       /\ streamResult[JobPath(j)] = "copy_err" }

NoTriple ==
    \A k \in 1..Len(Candidates) : ~IsAvailable(Candidates[k])

\* No request was made and no file was written.
NothingDone ==
    /\ \A j \in PoolJobs : fetchCalls[j] = 0 /\ streamCalls[j] = 0
    /\ fs = fs0
    /\ spawned = 0

\* The day mode is past the date loop.
Expanded ==
    mode = "day" /\ pc \notin {"run", "expand", "exit1"}

\* The step that leaves the date loop of the day mode.
LoopEnds ==
    mode = "day" /\ pc = "expand" /\ pc' # "expand"

\* C16: when start > end, or when no triple is available, the date loop
\* of the day mode ends with an empty job list in "no matching files":
\* exit code 0, no request made, no file written; no step follows, so no
\* confirmation is asked and no worker started; the confirmation and the
\* pool are only ever reached with a job.
C16_EmptyResultEndsCleanly ==
    [][/\ pc # "nomatch"
       /\ (LoopEnds /\ (start > end \/ NoTriple)) =>
            /\ pc' = "nomatch"
            /\ jobs' = <<>>
            /\ ExitCode' = 0
            /\ NothingDone'
       /\ (Expanded' /\ pc' # "nomatch") => jobs' # <<>>]_vars

\* A range of days, an exchange the rules do not list: triples, none
\* available.
C16_Witness ==
    /\ pc = "nomatch"
    /\ start < end
    /\ Len(Candidates) > 1
    /\ NoTriple
    /\ ~skipConfirm
    /\ ExitCode = 0
    /\ \E p \in DOMAIN fs : fs[p] = "absent"

\* C17: an end date before the start date never gets past run: the
\* program exits with a nonzero code before any date is resolved.
C17_EndBeforeStartIsRejected ==
    end < start => (pc \in {"run", "exit1"} /\ ExitCode # 0)

\* The jobs between their dequeue and the recording of their outcome.
InFlightJobs ==
    { j \in PoolJobs : recvCount[j] > 0 /\ outcome[j] = "none" }

\* The workers with a link request or a download under way.
Requesting ==
    { w \in Workers : wpc[w] \in {"fetch", "get", "copy"} }

\* C18: with --parallel = c >= 1 at most c jobs are in flight and at most
\* c requests (link or download) are under way; with c = 1 a job is
\* received only when every job before it in the list has its outcome.
C18_AtMostParallelInFlight ==
    parallelism >= 1 =>
        /\ Cardinality(InFlightJobs) <= parallelism
        /\ Cardinality(Requesting) <= parallelism
        /\ parallelism = 1 =>
            \A j \in PoolJobs :
                recvCount[j] > 0 => \A i \in 1..(j - 1) : outcome[i] # "none"

\* Two workers, two jobs in flight: one downloads while the other asks
\* for its link.
C18_Witness ==
    /\ parallelism = 2
    /\ Cardinality(InFlightJobs) = 2
    /\ wpc[1] = "copy"
    /\ wpc[2] = "fetch"

\* The jobs recorded in each branch.
Recorded(branch) ==
    { j \in PoolJobs : outcome[j] = branch }

\* C19: a worker reads and writes a counter only while it holds the
\* mutex; at every moment each counter is the number of jobs recorded in
\* its branch, so each recorded job has added one to one counter and no
\* addition is lost; at the end every job is recorded in the branch its
\* own check and requests took.
C19_CountersAreExact ==
    /\ \A w \in Workers : wpc[w] \in {"inc", "store"} => mu = w
    /\ successCount = Cardinality(Recorded("success"))
    /\ failCount = Cardinality(Recorded("fail"))
    /\ skipCount = Cardinality(Recorded("skip"))
    /\ \A j \in PoolJobs : recvCount[j] <= 1
    /\ (pc = "done" /\ parallelism >= 1) =>
        \A j \in PoolJobs : outcome[j] = OwnOutcome(j)

\* Two workers about to add to the same counter: one has read it and
\* holds the mutex, the other waits for the mutex.
C19_Witness ==
    /\ wpc = <<"store", "lock">>
    /\ wout = <<"success", "success">>
    /\ mu = 1
    /\ wtmp[1] = successCount

\* C20: in check mode no link is asked for, no download is made, no
\* file changes, no job list is built and no worker is started; the run
\* goes from run through the date loop to its report.
C20_CheckModeOnlyReads ==
    mode = "check" =>
        /\ \A j \in PoolJobs : fetchCalls[j] = 0 /\ streamCalls[j] = 0
        /\ fs = fs0
        /\ jobs = <<>>
        /\ spawned = 0
        /\ pc \in {"run", "check", "reported"}
        /\ ExitCode \in {-1, 0}

\* The report is printed with a block for an exchange whose file of the
\* day does not exist: the day mode would download here.
C20_Witness ==
    /\ mode = "check"
    /\ pc = "reported"
    /\ Len(blocks) = 1
    /\ blocks[1].Start < blocks[1].End
    /\ \E p \in DOMAIN fs : fs[p] = "absent" /\ linkResult[p] = RespOK

\* The value of a text of decimal digits.
DigitValue(c) ==
    CHOOSE k \in 0..9 : Digit(k) = c

IsDigits(t) ==
    \A i \in 1..Len(t) : \E k \in 0..9 : Digit(k) = t[i]

RECURSIVE Value(_)
Value(t) ==
    IF t = <<>> THEN 0
    ELSE 10 * Value(SubSeq(t, 1, Len(t) - 1)) + DigitValue(t[Len(t)])

\* The path of job j below the downloads folder.
RelPath(j) ==
    SubSeq(fullPath[j], 3, Len(fullPath[j]))

\* The three fields of a path that follow the exchange and the type folder.
YearField(rel, ex) ==
    SubSeq(rel, Len(ex) + 4, Len(ex) + 7)

MonthField(rel, ex) ==
    SubSeq(rel, Len(ex) + 9, Len(ex) + 10)

DayField(rel, ex) ==
    SubSeq(rel, Len(ex) + 12, Len(ex) + 13)

\* {exchange}/{folder}/{YYYY}/{MM}/{DD}/{pair}/{exchange}_{file}_{YYYY-MM-DD}_{pair}.parquet
Layout(ex, folder, yyyy, mm, dd, pair, file) ==
    ex \o <<"/", folder, "/">> \o yyyy \o <<"/">> \o mm \o <<"/">> \o dd \o <<"/">>
       \o pair \o <<"/">> \o ex \o <<"_", file, "_">>
       \o yyyy \o <<"-">> \o mm \o <<"-">> \o dd \o <<"_">> \o pair \o <<".parquet">>

\* rel is the documented path of exchange ex, pair and type dType on the
\* day numbered date: the layout, with a year of four digits, a month and
\* a day of two, which read back as that day.
IsDocumentedPath(rel, ex, pair, dType, date) ==
    LET yyyy == YearField(rel, ex)
        mm == MonthField(rel, ex)
        dd == DayField(rel, ex)
    IN /\ Len(rel) = 2 * Len(ex) + 2 * Len(pair) + 30
       /\ IsDigits(yyyy) /\ IsDigits(mm) /\ IsDigits(dd)
       /\ Value(mm) \in 1..12
       /\ Value(dd) \in 1..31
       /\ daysFromCivil(Value(yyyy), Value(mm), Value(dd)) = date
       /\ rel = Layout(ex, IF dType = "trade" THEN "trade" ELSE dType, yyyy, mm, dd, pair,
                       IF dType = "trade" THEN "trades" ELSE dType)

\* C21: the path of every job below the downloads folder is
\* {exchange}/{typeFolder}/{YYYY}/{MM}/{DD}/{pair}/{exchange}_{typeFilePart}_{YYYY-MM-DD}_{pair}.parquet
\* with zero-padded numbers that are the job's day; type "trade" gives the
\* folder "trade" and the file part "trades", another type gives itself
\* for both; and the path the first variant builds inline is the path of
\* type "trade".
C21_PathLayout ==
    \A j \in 1..Len(fullPath) :
        /\ RelPath(j) = getRelativePath(jobs[j].Exchange, jobs[j].Pair, dataType, jobs[j].Date)
        /\ IsDocumentedPath(RelPath(j), jobs[j].Exchange, jobs[j].Pair, dataType, jobs[j].Date)
        /\ inlineRelPath(jobs[j].Exchange, jobs[j].Pair, jobs[j].Date)
             = getRelativePath(jobs[j].Exchange, jobs[j].Pair, "trade", jobs[j].Date)

\* The example of the documentation: binance, btc_usdt, trade, 2025-11-02.
C21_Witness ==
    /\ Len(fullPath) = 1
    /\ dataType = "trade"
    /\ jobs[1].Date = daysFromCivil(2025, 11, 2)
    /\ RelPath(1) = Binance \o <<"/", "trade", "/", "2", "0", "2", "5", "/", "1", "1", "/",
                                  "0", "2", "/">> \o BtcUsdt \o <<"/">> \o Binance
                        \o <<"_", "trades", "_", "2", "0", "2", "5", "-", "1", "1", "-", "0", "2",
                             "_">> \o BtcUsdt \o <<".parquet">>
    /\ fs[fullPath[1]] = "complete"

\* The requests of the run so far: links asked for and downloads started.
Requests ==
    { j \in 1..Len(fetchCalls) : fetchCalls[j] > 0 \/ streamCalls[j] > 0 }

\* The run is over with exit code 1; no job was built, nothing was asked.
RejectedEarly ==
    /\ ExitCode = 1
    /\ jobs = <<>>
    /\ fullPath = <<>>
    /\ Requests = {}

BadDates ==
    \/ startDate = <<>>
    \/ startDate \in BadDateTexts
    \/ endDate \in BadDateTexts

\* C22: once run is past its argument tests, a missing --start-date or an
\* unparseable start or end date has ended it with exit code 1; so has
\* mode day with no exchanges or no tokens, before any job is built, and
\* so has any mode other than day and check; mode check with no exchanges
\* and no tokens goes on to its report; a run that ends with exit code 1
\* has asked for no link and started no download.
C22_ArgumentValidation ==
    /\ (pc # "args" /\ BadDates) => RejectedEarly
    /\ (pc \notin {"args", "load", "run"} /\ mode = "day"
            /\ (exchanges = <<>> \/ tokens = <<>>)) => RejectedEarly
    /\ (pc \notin {"args", "load", "run"} /\ mode \notin {"day", "check"}) => RejectedEarly
    /\ (pc \notin {"args", "load", "run"} /\ mode = "check" /\ ~BadDates
            /\ metadata = dirOf(PoolRules))
         => pc \in {"check", "reported"} /\ ExitCode # 1
    /\ ExitCode = 1 => Requests = {} /\ fullPath = <<>>

\* A good start date and an end date that does not parse: exit code 1.
C22_Witness ==
    /\ startDate \in GoodDateTexts
    /\ endDate \in BadDateTexts
    /\ mode = "day"
    /\ exchanges = <<X>>
    /\ tokens = <<P>>
    /\ pc = "exit1"

\* The names a rule file of day n can have: with or without the leading
\* "_", with "_" or "-" between year, month and day.
NamesOfDay(n) ==
    LET c == civil(n)
        with(sep) == Pad(c.y, 4) \o <<sep>> \o Pad(c.m, 2) \o <<sep>> \o Pad(c.d, 2) \o <<".json">>
    IN { with("_"), with("-"), <<"_">> \o with("_"), <<"_">> \o with("-") }

\* The days the names of AllEntries can stand for.
NameDays == 0..(MaxDate + 1)

\* Entry e is a file whose name parses as a date.
DateNamed(e) ==
    ~e.IsDir /\ \E n \in NameDays : e.Name \in NamesOfDay(n)

DayOfName(e) ==
    CHOOSE n \in NameDays : e.Name \in NamesOfDay(n)

DirEntries ==
    { metadata.entries[i] : i \in 1..Len(metadata.entries) }

\* A file with a date for a name that cannot be read or is not JSON.
BrokenRuleFile ==
    \E e \in DirEntries : DateNamed(e) /\ e.content # "json"

\* An entry that is skipped although its content is not JSON.
SkippedBadContent ==
    \E e \in DirEntries : ~e.IsDir /\ ~DateNamed(e) /\ e.content = "invalid"

RulesOfDir ==
    { [StartDate |-> DayOfName(e), Config |-> e.cfg] : e \in { d \in DirEntries : DateNamed(d) } }

\* C23: with good arguments, once run is past the loading of the rules: a
\* rule file with a date for a name that is unreadable or not JSON has
\* ended the run with a nonzero exit code before any job, and so has a
\* directory without any rule file; otherwise the rules are exactly those
\* of the files with a date for a name, whatever the other entries hold,
\* and the run goes on.
C23_RuleFilesSkippedOrFatal ==
    (pc \notin {"args", "load"} /\ ~BadDates /\ mode = "day"
            /\ exchanges # <<>> /\ tokens # <<>>) =>
        IF ~metadata.exists \/ BrokenRuleFile \/ RulesOfDir = {}
        THEN ExitCode = 1 /\ jobs = <<>> /\ fullPath = <<>> /\ configRules = <<>>
        ELSE /\ pc # "exit1"
             /\ { configRules[i] : i \in 1..Len(configRules) } = RulesOfDir
             /\ Len(configRules) = Cardinality(RulesOfDir)

\* A directory with two rule files and _notes.json, which is not JSON:
\* the run has loaded two rules and finished its downloads.
C23_Witness ==
    /\ SkippedBadContent
    /\ ~BrokenRuleFile
    /\ Len(configRules) = 2
    /\ pc = "done"

\* The index of the rule selected for date d, 0 if d resolves to no rule.
IndexFor(d) ==
    selectedIndex(configRules, d, Len(configRules))

\* The dates of a query: from before the first rule to after the last.
QueryDates == 0..(MaxDate + 1)

\* C24: resolution is monotonic in the date: for dates d1 <= d2 the index
\* of the rule selected for d1 is at most that of the rule selected for
\* d2, and if d1 resolves to a rule so does d2; the configuration the date
\* loop has resolved for its last day is the table of the rule with that
\* index, or absent for index 0.
C24_ResolutionIsMonotonic ==
    /\ \A d1 \in QueryDates : \A d2 \in QueryDates :
         d1 <= d2 =>
            /\ IndexFor(d1) <= IndexFor(d2)
            /\ IndexFor(d1) # 0 => IndexFor(d2) # 0
            /\ ~getConfigForDate(configRules, d1).isNil
                  => ~getConfigForDate(configRules, d2).isNil
    /\ \A d \in QueryDates :
         getConfigForDate(configRules, d) =
            IF IndexFor(d) = 0 THEN NilConfig
            ELSE SomeConfig(configRules[IndexFor(d)].Config)
    /\ (pc = "expand" /\ curr > start) =>
         activeConfig = IF IndexFor(curr - 1) = 0 THEN NilConfig
                        ELSE SomeConfig(configRules[IndexFor(curr - 1)].Config)

\* A range that starts before the first rule and ends on the last one:
\* the date loop has gone from absent through every rule.
C24_Witness ==
    /\ Len(configRules) = MaxRules
    /\ IndexFor(start) = 0
    /\ IndexFor(end) = MaxRules
    /\ pc = "expand"
    /\ curr > end
    /\ ~activeConfig.isNil

\* The jobs some worker has dequeued.
Dequeued ==
    { j \in 1..Len(recvCount) : recvCount[j] > 0 }

\* C25 as stated: no worker dequeues a job before the last job has been
\* enqueued.
C25_AllEnqueuedBeforeAnyDequeue ==
    Dequeued # {} => sent = Len(jobs)

\* C25, amended: the workers are all started before the first job is
\* enqueued; a job is dequeued only after it has itself been enqueued;
\* the queue is closed only after the last job has been enqueued.
C25_EnqueueOrder ==
    /\ sent > 0 => ~(spawned < parallelism)
    /\ \A j \in Dequeued : j <= sent
    /\ closed => sent = Len(jobs)

\* A worker has dequeued the first job while the producer has not yet
\* enqueued the last one.
C25_Witness ==
    /\ Len(jobs) = MaxJobs
    /\ 1 \in Dequeued
    /\ sent < Len(jobs)
    /\ ~closed

\* C26: jobs are dequeued in the order of the job list: when job j has
\* been dequeued, every job at an earlier position has been dequeued, and
\* the jobs still in the queue are in the order of the list, all after
\* the dequeued ones.
C26_DequeueIsFifo ==
    /\ \A j \in Dequeued : \A i \in 1..j : i \in Dequeued
    /\ \A k \in 1..Len(jobsCh) :
         /\ jobsCh[k] \notin Dequeued
         /\ \A i \in Dequeued : i < jobsCh[k]
         /\ k > 1 => jobsCh[k - 1] < jobsCh[k]

\* Job 1 was dequeued first, and the outcome of job 2 is recorded before
\* the outcome of job 1.
C26_Witness ==
    /\ Len(jobs) >= 2
    /\ {1, 2} \subseteq Dequeued
    /\ outcome[2] # "none"
    /\ outcome[1] = "none"

\* The elements of a list.
Elems(list) ==
    { list[i] : i \in 1..Len(list) }

\* How often s occurs in a list.
Occurrences(list, s) ==
    Cardinality({ i \in 1..Len(list) : list[i] = s })

\* Pair s of a rule passes --tokens.
Survives(s) ==
    tokens = <<>> \/ s \in Elems(tokens)

\* The exchanges the filtered table of a date with resolved table t has.
KeptExchanges(t) ==
    { e \in DOMAIN t :
        /\ exchanges = <<>> \/ e \in Elems(exchanges)
        /\ \E s \in Elems(t[e]) : Survives(s) }

\* v is the list of the surviving pairs of the list pairs, ascending.
IsSortedSurvivors(v, pairs) ==
    /\ \A s \in Elems(v) \cup Elems(pairs) :
         Occurrences(v, s) = IF Survives(s) THEN Occurrences(pairs, s) ELSE 0
    /\ \A k \in 1..(Len(v) - 1) : ~StrLess(v[k + 1], v[k])

\* table is the filtered table of date d as the claim describes it.
IsFilteredTable(table, d) ==
    LET r == getConfigForDate(configRules, d)
    IN IF r.isNil THEN table = EmptyTable
       ELSE /\ DOMAIN table = KeptExchanges(r.table)
            /\ \A e \in DOMAIN table : IsSortedSurvivors(table[e], r.table[e])

\* C27: the filtered table of every date has exactly the exchanges that
\* are keys of the resolved table, pass --exchanges (or it is empty) and
\* have a pair that passes --tokens (or it is empty), each with its
\* surviving pairs in ascending order; it is empty for a date without a
\* resolved table (checked for every date when the run starts); and it is
\* the table the check loop holds for the day it has just handled: the
\* data of the open block, or no open block when it is empty.
C27_FilteredTable ==
    /\ pc = "run" => \A d \in 0..(MaxDate + 1) : IsFilteredTable(Filtered(d), d)
    /\ (pc = "check" /\ curr > start) =>
         IF Filtered(curr - 1) = EmptyTable THEN currentBlock.isNil
         ELSE /\ ~currentBlock.isNil
              /\ currentBlock.End = curr - 1
              /\ IsFilteredTable(currentBlock.Data, curr - 1)

\* The rule lists q before p, --tokens names both: the open block lists p
\* before q.
C27_Witness ==
    /\ pc = "check"
    /\ curr > start
    /\ ~currentBlock.isNil
    /\ exchanges # <<>>
    /\ tokens # <<>>
    /\ X \in DOMAIN currentBlock.Data
    /\ currentBlock.Data[X] = <<P, Q>>
    /\ getConfigForDate(configRules, curr - 1).table[X] = <<Q, P>>

\* The lists --exchanges and --tokens as the expander reads them.
Trimmed(list) ==
    [i \in 1..Len(list) |-> TrimSpace(list[i])]

\* The positions of the jobs with date d, exchange ex and pair.
JobsOf(d, ex, pair) ==
    { i \in 1..Len(jobs) :
        jobs[i].Date = d /\ jobs[i].Exchange = ex /\ jobs[i].Pair = pair }

\* The triple is available: the table that getConfigForDate gives for
\* date d lists the pair under the exchange.
Available(d, ex, pair) ==
    LET ac == getConfigForDate(configRules, d)
    IN /\ ~ac.isNil
       /\ ex \in DOMAIN ac.table
       /\ pair \in Elems(ac.table[ex])

\* C28: when the expansion has ended, every available (date, exchange,
\* token) triple of the request has as many jobs as the product of the
\* number of times its exchange and the number of times its token were
\* given, and all of them have one destination path, that of the triple.
C28_DuplicatesMultiplyJobs ==
    pc \in {"nomatch", "confirm"} =>
        \A d \in start..end :
            \A ex \in Elems(Trimmed(exchanges)) : \A pair \in Elems(Trimmed(tokens)) :
                Available(d, ex, pair) =>
                    /\ Cardinality(JobsOf(d, ex, pair))
                         = Occurrences(Trimmed(exchanges), ex) * Occurrences(Trimmed(tokens), pair)
                    /\ pc = "confirm" =>
                         \A i \in JobsOf(d, ex, pair) :
                            fullPathOf(jobs[i], dataType)
                                = <<"downloads", "/">> \o getRelativePath(ex, pair, dataType, d)

\* The same exchange twice and the same token twice: four jobs for one
\* day, exchange and pair.
C28_Witness ==
    /\ pc = "confirm"
    /\ Len(exchanges) = 2
    /\ exchanges[1] = exchanges[2]
    /\ Len(tokens) = 2
    /\ tokens[1] = tokens[2]
    /\ \E i \in 1..Len(jobs) :
         Cardinality(JobsOf(jobs[i].Date, jobs[i].Exchange, jobs[i].Pair)) = 4

\* What a Read of a response body can return.
ReadResults ==
    [n : 0..2, err : {"nil", "EOF", "reset"}]

\* The transport results with which the file does not arrive.
TransportFails(stream) ==
    stream \in {"open_err", "copy_err", "copy_err_data"}

\* The outcome of job j as the files that exist at the start and the
\* answers of the link service and the transport decide it.
Classified(j) ==
    IF fs0[JobPath(j)] # "absent" THEN "skip"
    ELSE IF fetchDownloadLink(linkResult[JobPath(j)]).err # NoErr THEN "fail"
    ELSE IF TransportFails(streamResult[JobPath(j)]) THEN "fail"
    ELSE "success"

\* C29: the progress bar only watches.  ProgressReader.Read returns the n
\* and err of the underlying Read, with a bar and without; the recorded
\* outcome of every job is the one the existing files, the link answer
\* and the transport result decide, however the bytes reached the bar;
\* and at the end the counters count those outcomes.
C29_ProgressIsObservational ==
    /\ pc = "run" =>
         \A r \in ReadResults : \A b \in BOOLEAN :
            /\ ProgressReaderRead(r, b).n = r.n
            /\ ProgressReaderRead(r, b).err = r.err
    /\ \A j \in 1..Len(outcome) : outcome[j] # "none" => outcome[j] = Classified(j)
    /\ pc = "done" =>
         /\ successCount = Cardinality({ j \in 1..Len(jobs) : Classified(j) = "success" })
         /\ failCount = Cardinality({ j \in 1..Len(jobs) : Classified(j) = "fail" })
         /\ skipCount = Cardinality({ j \in 1..Len(jobs) : Classified(j) = "skip" })

\* Two downloads of the same two bytes: the bar of job 1 was given them
\* at once, the bar of job 2 one by one, both jobs are saved.
C29_Witness ==
    /\ pc = "done"
    /\ Len(jobs) >= 2
    /\ streamResult[JobPath(1)] = "ok"
    /\ streamResult[JobPath(2)] = "ok_chunks"
    /\ barCurrent[1] = 2
    /\ barCurrent[2] = 2
    /\ outcome[1] = "success"
    /\ outcome[2] = "success"
    /\ successCount = 2

\* The producer is at a send: the workers are started, a job is left.
AtSend ==
    pc = "pool" /\ ~(spawned < parallelism) /\ sent < Len(jobs)

\* The queue holds fewer jobs than there are.
QueueHasRoom ==
    Len(jobsCh) < Len(jobs)

\* runDownloads has returned from wg.Wait and every worker has left its
\* loop over the closed, drained queue.
Terminated ==
    /\ pc = "done"
    /\ closed
    /\ jobsCh = <<>>
    /\ \A w \in 1..spawned : wpc[w] = "exit"

\* C30: under fair scheduling, with calls that return, the producer
\* finds room in the queue at every send and can send at once, and a pool
\* started with --parallel >= 1 comes to its end: the queue is closed and
\* drained, every worker has exited and wg.Wait has returned.
C30_RunDownloadsTerminates ==
    /\ [](AtSend => QueueHasRoom /\ ENABLED Send)
    /\ (pc = "pool" /\ parallelism >= 1) ~> Terminated

\* More jobs than workers: the one worker has taken every job in turn
\* and the run is over.
C30_Witness ==
    /\ Terminated
    /\ parallelism = 1
    /\ Len(jobs) = MaxJobs
    /\ successCount + failCount + skipCount = MaxJobs

\* C31: for every value of --parallel, zero and negative ones included,
\* the summary printed when runDownloads returns accounts for every job:
\* success + skipped + failed = total.
C31_SummaryAccountsForEveryJob ==
    pc = "done" => successCount + skipCount + failCount = Len(jobs)

\* The first run is over and so is the second one.
SecondRunDone ==
    prevRun.ran /\ pc = "done"

\* C32: over two consecutive runs of the same command, a job recorded
\* Failed in the first run asks for its link again in the second run and
\* is not recorded Skipped; a job is Skipped in the second run only if
\* its file existed before the first run or the first run's Success wrote
\* it completely.
C32_FailedJobIsRetried ==
    SecondRunDone =>
        \A j \in 1..Len(jobs) :
            /\ prevRun.outcome[j] = "fail" =>
                fetchCalls[j] >= 1 /\ outcome[j] # "skip"
            /\ outcome[j] = "skip" =>
                \/ prevRun.fs0[JobPath(j)] = "exists"
                \/ prevRun.outcome[j] = "success"

\* The GET on the signed URL fails, or answers with a status other than 200.
GetFails == {"open_err", "status_err"}

\* Worker w returns from the first part of downloadStream in this step,
\* and its GET is one that fails.
GetFailsIn(w) ==
    /\ wpc[w] = "get"
    /\ wpc'[w] # "get"
    /\ streamResult[JobPath(wjob[w])] \in GetFails

\* C33: when the GET on the signed URL fails or answers with a status
\* other than 200, downloadStream returns an error and has created neither
\* a directory nor a file: the files and directories under downloads/ are
\* the same after the call as before it, and the job is recorded Failed.
C33_FailedGetCreatesNothing ==
    [][/\ \A w \in Workers :
            GetFailsIn(w) => fs' = fs /\ dirs' = dirs /\ wout'[w] = "fail"
       /\ pc' = "done" =>
            \A j \in 1..Len(jobs') :
                (streamCalls'[j] >= 1 /\ streamResult'[fullPath'[j]] \in GetFails) =>
                    outcome'[j] = "fail"]_vars

\* The signed URL of the first job answered with a status other than 200
\* and the second job was downloaded: the run is over, the first job is
\* Failed and neither its file nor its directory is there, the second
\* one's are.
C33_Witness ==
    /\ pc = "done"
    /\ Len(jobs) >= 2
    /\ streamResult[JobPath(1)] = "status_err"
    /\ streamCalls[1] = 1
    /\ outcome[1] = "fail"
    /\ fs[JobPath(1)] = "absent"
    /\ Dir(JobPath(1)) \notin dirs
    /\ outcome[2] = "success"
    /\ Dir(JobPath(2)) \in dirs

\* Some block of the check-mode report covers date d and lists pair for
\* exchange ex.
InBlock(d, ex, pair) ==
    \E i \in 1..Len(blocks) :
        /\ blocks[i].Start <= d
        /\ d <= blocks[i].End
        /\ ex \in DOMAIN blocks[i].Data
        /\ pair \in Elems(blocks[i].Data[ex])

\* The jobs day mode builds for the same rules, range and flag values.
DayJobs ==
    dateLoop(configRules, start, end, exchanges, tokens)

HasJob(d, ex, pair) ==
    \E i \in 1..Len(DayJobs) :
        DayJobs[i].Date = d /\ DayJobs[i].Exchange = ex /\ DayJobs[i].Pair = pair

\* C34: for the same rules, date range and non-empty --exchanges and
\* --tokens, typed with or without surrounding white space, a (date,
\* exchange, pair) is in a block of the check-mode report covering that
\* date exactly when day mode emits a job for it.
C34_ModesAgreeOnAvailability ==
    (pc = "reported" /\ exchanges # <<>> /\ tokens # <<>>) =>
        \A d \in start..end : \A ex \in {X, Y} : \A pair \in {P, Q} :
            InBlock(d, ex, pair) <=> HasJob(d, ex, pair)

\* Nothing of the pool has happened: no worker, no job sent or received,
\* no request, no file made, every counter zero.
NothingProcessed ==
    /\ spawned = 0
    /\ sent = 0
    /\ jobsCh = <<>>
    /\ Requests = {}
    /\ \A j \in 1..Len(recvCount) : recvCount[j] = 0
    /\ fs = fs0
    /\ successCount + failCount + skipCount = 0

\* C35: in day mode the pool is entered only through the confirmation
\* step (--yes, or the user's yes), and before that no link or download
\* request is made and no file or directory is created; when the user declines, the
\* process ends with exit code 0 and has processed no job.
C35_NothingBeforeConfirmation ==
    [][mode = "day" =>
        /\ (pc' = "pool" /\ pc # "pool") => pc = "confirm"
        /\ pc' \notin {"pool", "done"} => NothingProcessed' /\ dirs' = dirs
        /\ pc' = "aborted" =>
            /\ pc = "confirm"
            /\ ~skipConfirm
            /\ ExitCode' = 0]_vars

\* The user has declined the download of two files that are not there
\* and that the server would have given.
C35_Witness ==
    /\ mode = "day"
    /\ pc = "aborted"
    /\ ~skipConfirm
    /\ Len(jobs) = 2
    /\ \A p \in DOMAIN fs : fs[p] = "absent" /\ linkResult[p] = RespOK
    /\ NothingProcessed

\* Block b lies in the range, holds data, and its data are the filtered
\* table of each of its dates.
IsWellFormedBlock(b) ==
    /\ start <= b.Start
    /\ b.Start <= b.End
    /\ b.End <= end
    /\ DOMAIN b.Data # {}
    /\ \A ex \in DOMAIN b.Data : b.Data[ex] # <<>>
    /\ \A d \in b.Start..b.End : IsFilteredTable(b.Data, d)

\* No exchange with a surviving pair: the filtered table of date d is empty.
FilteredIsEmpty(d) ==
    LET r == getConfigForDate(configRules, d)
    IN r.isNil \/ KeptExchanges(r.table) = {}

\* C36: every block of the check-mode report lies in [start, end] with
\* Start <= End, has a non-empty Data map whose exchanges all have a
\* non-empty pair list, and its Data are the filtered table of every date
\* from its Start to its End; a date whose filtered table is empty is in
\* no block.
C36_BlocksAreWellFormed ==
    pc = "reported" =>
        /\ \A i \in 1..Len(blocks) : IsWellFormedBlock(blocks[i])
        /\ \A d \in start..end :
            FilteredIsEmpty(d) =>
                \A i \in 1..Len(blocks) : ~(blocks[i].Start <= d /\ d <= blocks[i].End)

\* A report of two blocks with different data and a day without data
\* between them or beside them, under filters on both lists.
C36_Witness ==
    /\ pc = "reported"
    /\ exchanges # <<>>
    /\ tokens # <<>>
    /\ Len(blocks) = 2
    /\ blocks[1].Data # blocks[2].Data
    /\ \E d \in start..end : FilteredIsEmpty(d)

\* The report of check mode as a function of the rules, the range and the
\* filters: the loop from date d with the blocks bs and the open block cb.
RECURSIVE ReportFrom(_, _, _)
ReportFrom(d, bs, cb) ==
    IF d > end THEN (IF cb.isNil THEN bs ELSE Append(bs, cb))
    ELSE LET m == mergeDay(bs, cb, d,
                           dayDataOf(getConfigForDate(configRules, d), exchanges, tokens))
         IN ReportFrom(d + 1, m[1], m[2])

\* C37: the check-mode block list depends on the rules, the date range
\* and the filters only.  Each day's step ends in the same blocks and open
\* block for every order in which the exchanges of the table are visited,
\* no step changes a loaded rule table, and the finished list is the one
\* function of rules, range and filters.
C37_ReportIsAFunctionOfItsInputs ==
    [][/\ configRules' = configRules
       /\ (pc = "check" /\ curr' = curr + 1) =>
            \A order \in Orders(activeConfig'.table) :
                mergeDay(blocks, currentBlock, curr,
                         dayDataIn(activeConfig', order, exchanges, tokens).dayData)
                    = <<blocks', currentBlock'>>
       /\ pc' = "reported" => blocks' = ReportFrom(start, <<>>, NilBlock)]_vars

\* A report with a block of two exchanges, which the loop visited in
\* either order, and with a block whose pairs are listed p, q while the
\* rule it comes from lists q, p.
C37_Witness ==
    /\ pc = "reported"
    /\ \E i \in 1..Len(blocks) : Cardinality(DOMAIN blocks[i].Data) = 2
    /\ \E i \in 1..Len(blocks) :
        /\ X \in DOMAIN blocks[i].Data
        /\ blocks[i].Data[X] = <<P, Q>>
        /\ \E k \in 1..Len(configRules) :
            /\ X \in DOMAIN configRules[k].Config
            /\ configRules[k].Config[X] = <<Q, P>>

\* The triples of a job list.
TriplesOf(js) ==
    [i \in 1..Len(js) |-> Triple(js[i])]

\* C38: the first variant's hard-coded choice (the table of 2025-01-01
\* before 2025-10-02, the table of 2025-10-02 from then on) is, for every
\* date, the table getConfigForDate selects from the two rules dated
\* 2025-01-01 and 2025-10-02, and the first variant's job list is the one
\* runDayMode builds from these rules for the same range and lists.
C38_FirstVariantSelectsAsGetConfigForDate ==
    /\ \A d \in start..end :
        getConfigForDate(configRules, d)
            = SomeConfig(firstActiveConfig(configRules[1].Config, configRules[2].Config, d))
    /\ pc \in {"nomatch", "confirm"} =>
        TriplesOf(jobs) = TriplesOf(dateLoop(configRules, start, end, exchanges, tokens))

\* C39: in downloadFiles, for every file list and concurrency >= 1, each
\* index is shifted from the queue at most once and, at the return,
\* exactly once; completedFiles + failedFiles <= totalFiles at every call
\* of onProgress; and at the return results[i] is the result for files[i]
\* for every i, completedFiles + failedFiles = totalFiles and
\* downloadedBytes <= totalBytes.
C39_DownloadFilesAccounts ==
    /\ \A i \in 1..Len(shifted) : shifted[i] <= 1
    /\ \A k \in 1..Len(callbacks) :
        callbacks[k].progress.completedFiles + callbacks[k].progress.failedFiles
            <= callbacks[k].progress.totalFiles
    /\ tsPc = "returned" =>
        /\ Len(results) = Len(fileList)
        /\ \A i \in 1..Len(fileList) :
            /\ shifted[i] = 1
            /\ results[i].isSet
            /\ results[i].file = fileList[i]
        /\ progress.totalFiles = Len(fileList)
        /\ progress.completedFiles + progress.failedFiles = progress.totalFiles
        /\ progress.completedFiles
            = Cardinality({ i \in 1..Len(results) : results[i].success })
        /\ progress.downloadedBytes <= progress.totalBytes

\* downloadFiles has returned for two different files and one worker:
\* the first download failed, the second one succeeded and its bytes are
\* counted.
C39_Witness ==
    /\ tsPc = "returned"
    /\ concurrency = 1
    /\ Len(fileList) = 2
    /\ fileList[1] # fileList[2]
    /\ ~results[1].success
    /\ results[2].success
    /\ results[2].file.hasSize
    /\ progress.failedFiles = 1
    /\ progress.downloadedBytes = results[2].file.size
    /\ progress.downloadedBytes < progress.totalBytes

\* C40: at every call of onProgress the list currentFiles has exactly one
\* entry per download in flight, for every file list, lists with repeated
\* entries included, and it is empty at the last call.
C40_CurrentFilesMatchInFlight ==
    \A k \in 1..Len(callbacks) :
        /\ Len(callbacks[k].progress.currentFiles) = callbacks[k].inFlight
        /\ callbacks[k].final => callbacks[k].progress.currentFiles = <<>>

====
